---- MODULE Spec2Model ----
(***************************************************************************)
(* Model of the safe_ecs World: the entity allocator, the archetype table, *)
(* the per-type column families, and the query iterators, together with    *)
(* the fuzz harness's reference model SimpleWorld.                         *)
(*                                                                         *)
(* Rust Vec<T> is modelled as a function over 0..len-1, so that row,       *)
(* column and archetype indices are the indices of the source.  HashMap    *)
(* is modelled as a function over its key set.  Option<T> is modelled as a *)
(* sequence of length at most one.                                         *)
(***************************************************************************)
EXTENDS Integers, Sequences, FiniteSets, TLC

VARIABLES world, simple_world, panicked, query, borrow_flag, queries, result,
          function_system, erased_column, heap

vars == <<world, simple_world, panicked, query, borrow_flag, queries, result,
          function_system, erased_column, heap>>

\* ------------------------------------------------------------------ bounds
\* number of entity ids the allocator hands out
MaxEntities == 2
\* number of EcsTypeIds (static and dynamic together) that are registered
MaxEcsTypeIds == 2

\* the component types of the typed API (TypeId keys)
StaticTypes == {"u32", "u64"}
\* layout.size() of the dynamic component types that get registered
LayoutSizes == {0, 4}
\* the component values that get inserted
Values == {10, 12}

\* ------------------------------------------------------------------ Option
None == <<>>
Some(x) == <<x>>
IsSome(o) == o # None
Unwrap(o) == o[1]

\* ------------------------------------------------------------------ Vec
VecLen(v) == Cardinality(DOMAIN v)

push(v, x) == [i \in 0..VecLen(v) |-> IF i < VecLen(v) THEN v[i] ELSE x]

\* a removal that closes the gap by shifting the later elements down
swap_remove_shifts(v, idx) ==
    IF VecLen(v) <= 1 THEN <<>>
    ELSE [i \in 0..(VecLen(v) - 2) |-> IF i < idx THEN v[i] ELSE v[i + 1]]

\* Vec::swap_remove: the last element takes the place of idx, the vector
\* shrinks by one (callers check idx < len, where the source panics)
swap_remove(v, idx) ==
    IF VecLen(v) <= 1 THEN <<>>
    ELSE [i \in 0..(VecLen(v) - 2) |-> IF i = idx THEN v[VecLen(v) - 1] ELSE v[i]]

\* a resize that also fills the slots of despawned entities
resize_reuse(v, new_len, value) ==
    IF new_len = 0 THEN <<>>
    ELSE [i \in 0..(new_len - 1) |->
             IF i < VecLen(v) /\ v[i] # None THEN v[i] ELSE value]

\* Vec::resize(new_len, value) for new_len >= len
resize(v, new_len, value) ==
    IF new_len = 0 THEN <<>>
    ELSE [i \in 0..(new_len - 1) |-> IF i < VecLen(v) THEN v[i] ELSE value]

\* slice::iter().position(p) for p = "equals x"
position(v, x) ==
    IF \E i \in DOMAIN v : v[i] = x
    THEN Some(CHOOSE i \in DOMAIN v : v[i] = x /\ \A j \in DOMAIN v : v[j] = x => i <= j)
    ELSE None

\* ------------------------------------------------------------------ Entities
Entity(id) == id
EntityMeta(a) == [archetype |-> a]

Entities_new == [len |-> 0, meta |-> <<>>]

is_alive(w, entity) ==
    /\ entity \in DOMAIN w.entities.meta
    /\ IsSome(w.entities.meta[entity])

meta(w, entity) ==
    IF entity \in DOMAIN w.entities.meta THEN w.entities.meta[entity] ELSE None

\* a fix-up whose loop runs over the reserved entities from the highest id
\* down
RECURSIVE push_reserved_descending(_, _, _)
push_reserved_descending(entities, id, new_len) ==
    IF id >= new_len THEN entities
    ELSE push(push_reserved_descending(entities, id + 1, new_len), Entity(id))

RECURSIVE push_reserved(_, _, _)
\* the loop of fix_reserved_entities with the callback every caller passes:
\* archetypes[0].entities.push(reserved), for id in meta.len()..new_len
push_reserved(entities, id, new_len) ==
    IF id >= new_len THEN entities
    ELSE push_reserved(push(entities, Entity(id)), id + 1, new_len)

\* a fix_reserved_entities that forgets to resize the metadata
fix_reserved_entities_no_meta(w) ==
    LET new_len == w.entities.len
    IN  [w EXCEPT !.archetypes[0].entities =
                      push_reserved(@, VecLen(w.entities.meta), new_len)]

fix_reserved_entities(w) ==
    LET new_len == w.entities.len
    IN  [w EXCEPT !.archetypes[0].entities =
                      push_reserved(@, VecLen(w.entities.meta), new_len),
                  !.entities.meta = resize(@, new_len, Some(EntityMeta(0)))]

\* the width of usize in the model, and usize::MAX
UsizeBits == 3
usize_MAX == 2^UsizeBits - 1

\* fetch_add(1) returns the old counter value and wraps around on overflow;
\* the panic for the id usize::MAX comes after the counter was written.
\* The actions of the typed operations cap the counter by MaxEntities.
reserve_entity(w) ==
    [w |-> [w EXCEPT !.entities.len = (@ + 1) % (usize_MAX + 1)],
     ret |-> Entity(w.entities.len), panic |-> w.entities.len = usize_MAX]

Entities_spawn(w) ==
    LET r == reserve_entity(w)
    IN  [w |-> IF r.panic THEN r.w ELSE fix_reserved_entities(r.w),
         ret |-> r.ret, panic |-> r.panic]

\* ------------------------------------------------------------------ World
World_new ==
    [entities |-> Entities_new,
     archetypes |-> push(<<>>, [entities |-> <<>>, column_indices |-> <<>>]),
     columns |-> <<>>,
     next_ecs_type_id |-> 0,
     ecs_type_ids |-> <<>>,
     sizes |-> <<>>]

get_entity_idx(archetype, entity) == position(archetype.entities, entity)

type_to_ecs_type_id(w, T) ==
    IF T \in DOMAIN w.ecs_type_ids THEN Some(w.ecs_type_ids[T]) ELSE None

\* columns.insert(ecs_type_id, vec![empty storage]): slot 0 of every column
\* family is the template storage that empty_of_same_type clones
\* try_insert fails for a registered type and `?` returns before the
\* counter and the columns are touched
new_static_ecs_type_id(w, T) ==
    LET ecs_type_id == w.next_ecs_type_id
    IN  IF T \in DOMAIN w.ecs_type_ids THEN [w |-> w, ret |-> None]
        ELSE [w |-> [w EXCEPT !.ecs_type_ids = (T :> ecs_type_id) @@ @,
                              !.next_ecs_type_id = ecs_type_id + 1,
                              !.columns = (ecs_type_id :> push(<<>>, <<>>)) @@ @],
              ret |-> Some(ecs_type_id)]

type_to_ecs_type_id_or_create(w, T) ==
    IF IsSome(type_to_ecs_type_id(w, T))
    THEN [w |-> w, ret |-> Unwrap(type_to_ecs_type_id(w, T))]
    ELSE [w |-> new_static_ecs_type_id(w, T).w,
          ret |-> Unwrap(new_static_ecs_type_id(w, T).ret)]

\* a registration that leaves the counter where it was
new_dynamic_ecs_type_id_same_counter(w, layout_size) ==
    LET ecs_type_id == w.next_ecs_type_id
    IN  [w |-> [w EXCEPT !.columns = (ecs_type_id :> push(<<>>, <<>>)) @@ @,
                         !.sizes = (ecs_type_id :> layout_size) @@ @],
         ret |-> ecs_type_id]

new_dynamic_ecs_type_id(w, layout_size) ==
    LET ecs_type_id == w.next_ecs_type_id
    IN  [w |-> [w EXCEPT !.next_ecs_type_id = ecs_type_id + 1,
                         !.columns = (ecs_type_id :> push(<<>>, <<>>)) @@ @,
                         !.sizes = (ecs_type_id :> layout_size) @@ @],
         ret |-> ecs_type_id]

\* AlignedBytesVec::incr_len: with size 0 the assertion divides by zero;
\* with any other size realloc_if_full has made room and it succeeds
incr_len_panics(w, id) == id \in DOMAIN w.sizes /\ w.sizes[id] = 0

World_spawn(w) == Entities_spawn(w)

has_component_dynamic(w, entity, id) ==
    IF meta(w, entity) = None THEN None
    ELSE Some(id \in DOMAIN w.archetypes[Unwrap(meta(w, entity)).archetype].column_indices)

has_component(w, T, entity) ==
    IF type_to_ecs_type_id(w, T) = None THEN Some(FALSE)
    ELSE has_component_dynamic(w, entity, Unwrap(type_to_ecs_type_id(w, T)))

\* an archetype_has_ids that asks for any key among the ids, not for all
archetype_has_ids_any(archetype, ids) ==
    /\ Cardinality(DOMAIN archetype.column_indices) = Cardinality(ids)
    /\ \E column_type_id \in DOMAIN archetype.column_indices : column_type_id \in ids

\* ------------------------------------------------------------------ archetypes
archetype_has_ids(archetype, ids) ==
    /\ Cardinality(DOMAIN archetype.column_indices) = Cardinality(ids)
    /\ \A column_type_id \in DOMAIN archetype.column_indices : column_type_id \in ids

\* ids is the Vec built from the HashMap keys; its order is not used
find_archetype_from_ids(w, ids) ==
    IF \E a \in DOMAIN w.archetypes : archetype_has_ids(w.archetypes[a], ids)
    THEN Some(CHOOSE a \in DOMAIN w.archetypes :
                /\ archetype_has_ids(w.archetypes[a], ids)
                /\ \A b \in DOMAIN w.archetypes :
                      archetype_has_ids(w.archetypes[b], ids) => a <= b)
    ELSE None

\* pushes one empty storage per type id onto that type's column family and
\* records its slot; panics when an archetype with these ids exists
push_archetype(w, type_ids) ==
    IF IsSome(find_archetype_from_ids(w, type_ids)) \/ ~(type_ids \subseteq DOMAIN w.columns)
    THEN [w |-> w, ret |-> 0, panic |-> TRUE]
    ELSE LET column_indices == [type_id \in type_ids |-> VecLen(w.columns[type_id])]
             columns == [type_id \in DOMAIN w.columns |->
                            IF type_id \in type_ids
                            THEN push(w.columns[type_id], <<>>)
                            ELSE w.columns[type_id]]
         IN  [w |-> [w EXCEPT !.columns = columns,
                              !.archetypes = push(@, [entities |-> <<>>,
                                                      column_indices |-> column_indices])],
              ret |-> VecLen(w.archetypes),
              panic |-> FALSE]

get_or_insert_archetype_from_remove(w, archetype, removed_ecs_type_id) ==
    LET new_type_ids == {column_type_id \in DOMAIN w.archetypes[archetype].column_indices :
                            column_type_id # removed_ecs_type_id}
    IN  IF removed_ecs_type_id \notin DOMAIN w.archetypes[archetype].column_indices
        THEN [w |-> w, ret |-> 0, panic |-> TRUE]
        ELSE IF IsSome(find_archetype_from_ids(w, new_type_ids))
        THEN [w |-> w, ret |-> Unwrap(find_archetype_from_ids(w, new_type_ids)),
              panic |-> FALSE]
        ELSE push_archetype(w, new_type_ids)

get_or_insert_archetype_from_insert(w, archetype, inserted_ecs_type_id) ==
    LET new_type_ids == DOMAIN w.archetypes[archetype].column_indices
                            \cup {inserted_ecs_type_id}
    IN  IF inserted_ecs_type_id \in DOMAIN w.archetypes[archetype].column_indices
        THEN [w |-> w, ret |-> 0, panic |-> TRUE]
        ELSE IF IsSome(find_archetype_from_ids(w, new_type_ids))
        THEN [w |-> w, ret |-> Unwrap(find_archetype_from_ids(w, new_type_ids)),
              panic |-> FALSE]
        ELSE push_archetype(w, new_type_ids)

\* a swap_remove_move_to that moves the last cell, not the cell at idx
swap_remove_move_to_last(storages, old_column, new_column, idx) ==
    [storages EXCEPT ![new_column] =
                         push(@, storages[old_column][VecLen(storages[old_column]) - 1]),
                     ![old_column] = swap_remove(@, idx)]

\* Storage::swap_remove_move_to between two storages of one column family,
\* after get_two: other.push(self.swap_remove(idx))
swap_remove_move_to(storages, old_column, new_column, idx) ==
    [storages EXCEPT ![new_column] = push(@, storages[old_column][idx]),
                     ![old_column] = swap_remove(@, idx)]

\* a swap_remove_and_drop that leaves the cell in place
swap_remove_and_drop_kept(storages, column, idx) ==
    storages

\* Storage::swap_remove_and_drop on one storage of a column family
swap_remove_and_drop(storages, column, idx) ==
    [storages EXCEPT ![column] = swap_remove(@, idx)]

\* where get_two, an unwrap or a swap_remove of the migration loop panics
migration_panics(w, old_archetype, new_archetype, column_type_ids, idx) ==
    \/ idx = None
    \/ \E ty \in column_type_ids :
          \/ ty \notin DOMAIN old_archetype.column_indices
          \/ ty \notin DOMAIN new_archetype.column_indices
          \/ old_archetype.column_indices[ty] = new_archetype.column_indices[ty]
          \/ Unwrap(idx) >= VecLen(w.columns[ty][old_archetype.column_indices[ty]])
          \/ incr_len_panics(w, ty)

\* some = FALSE for a dead entity; otherwise ret is the entity's row in the
\* old archetype, and old_archetype is that archetype's index
move_entity_from_remove(w, entity, removed_id) ==
    IF is_alive(w, entity) = FALSE
    THEN [w |-> w, some |-> FALSE, ret |-> 0, old_archetype |-> 0, panic |-> FALSE]
    ELSE LET archetype_id == Unwrap(meta(w, entity)).archetype
             g == get_or_insert_archetype_from_remove(w, archetype_id, removed_id)
             new_archetype_id == g.ret
             w1 == [g.w EXCEPT !.entities.meta[entity] = Some(EntityMeta(new_archetype_id))]
             old_archetype == w1.archetypes[archetype_id]
             new_archetype == w1.archetypes[new_archetype_id]
             idx == get_entity_idx(old_archetype, entity)
             entity_idx == Unwrap(idx)
         IN  IF \/ g.panic
                \/ archetype_id = new_archetype_id
                \/ migration_panics(w1, old_archetype, new_archetype,
                                    DOMAIN new_archetype.column_indices, idx)
             THEN [w |-> w, some |-> TRUE, ret |-> 0, old_archetype |-> 0, panic |-> TRUE]
             ELSE [w |-> [w1 EXCEPT
                      !.archetypes[archetype_id].entities = swap_remove(@, entity_idx),
                      !.archetypes[new_archetype_id].entities = push(@, entity),
                      !.columns = [column_type_id \in DOMAIN w1.columns |->
                          IF column_type_id \in DOMAIN new_archetype.column_indices
                          THEN swap_remove_move_to(w1.columns[column_type_id],
                                                   old_archetype.column_indices[column_type_id],
                                                   new_archetype.column_indices[column_type_id],
                                                   entity_idx)
                          ELSE w1.columns[column_type_id]]],
                   some |-> TRUE, ret |-> entity_idx, old_archetype |-> archetype_id,
                   panic |-> FALSE]

\* some = FALSE for a dead entity; otherwise new_archetype is the index of
\* the archetype the entity has moved to
\* a move_entity_from_insert that lists a dead entity in the empty archetype
\* before it answers None
move_entity_from_insert_lists_dead(w, entity, inserted_id) ==
    [w |-> [w EXCEPT !.archetypes[0].entities = push(@, entity)],
     some |-> FALSE, new_archetype |-> 0, panic |-> FALSE]

move_entity_from_insert(w, entity, inserted_id) ==
    IF is_alive(w, entity) = FALSE
    THEN [w |-> w, some |-> FALSE, new_archetype |-> 0, panic |-> FALSE]
    ELSE LET archetype_id == Unwrap(meta(w, entity)).archetype
             g == get_or_insert_archetype_from_insert(w, archetype_id, inserted_id)
             new_archetype_id == g.ret
             w1 == [g.w EXCEPT !.entities.meta[entity] = Some(EntityMeta(new_archetype_id))]
             old_archetype == w1.archetypes[archetype_id]
             new_archetype == w1.archetypes[new_archetype_id]
             idx == get_entity_idx(old_archetype, entity)
             entity_idx == Unwrap(idx)
         IN  IF \/ g.panic
                \/ archetype_id = new_archetype_id
                \/ migration_panics(w1, old_archetype, new_archetype,
                                    DOMAIN old_archetype.column_indices, idx)
             THEN [w |-> w, some |-> TRUE, new_archetype |-> 0, panic |-> TRUE]
             ELSE [w |-> [w1 EXCEPT
                      !.archetypes[archetype_id].entities = swap_remove(@, entity_idx),
                      !.archetypes[new_archetype_id].entities = push(@, entity),
                      !.columns = [column_type_id \in DOMAIN w1.columns |->
                          IF column_type_id \in DOMAIN old_archetype.column_indices
                          THEN swap_remove_move_to(w1.columns[column_type_id],
                                                   old_archetype.column_indices[column_type_id],
                                                   new_archetype.column_indices[column_type_id],
                                                   entity_idx)
                          ELSE w1.columns[column_type_id]]],
                   some |-> TRUE, new_archetype |-> new_archetype_id, panic |-> FALSE]

\* ------------------------------------------------------------------ World operations
\* a despawn that leaves the entity's metadata in place
World_despawn_keeps_meta(w, entity) ==
    LET w1 == fix_reserved_entities(w)
    IN  IF ~is_alive(w1, entity) THEN [w |-> w1, panic |-> FALSE]
        ELSE LET m == Unwrap(meta(w1, entity))
                 archetype == w1.archetypes[m.archetype]
                 idx == get_entity_idx(archetype, entity)
                 entity_idx == Unwrap(idx)
             IN  IF idx = None THEN [w |-> w1, panic |-> FALSE]
                 ELSE [w |-> [w1 EXCEPT
                          !.archetypes[m.archetype].entities = swap_remove(@, entity_idx),
                          !.columns = [ty_id \in DOMAIN w1.columns |->
                              IF ty_id \in DOMAIN archetype.column_indices
                              THEN swap_remove_and_drop(w1.columns[ty_id],
                                                        archetype.column_indices[ty_id],
                                                        entity_idx)
                              ELSE w1.columns[ty_id]]],
                       panic |-> FALSE]

\* the closure that World::despawn passes as handle_despawn: the entity's
\* row leaves the archetype of entity_meta and every column of it
handle_despawn(w, entity, entity_meta) ==
    LET archetype == w.archetypes[entity_meta.archetype]
        idx == get_entity_idx(archetype, entity)
        entity_idx == Unwrap(idx)
        panic ==
            \/ idx = None
            \/ \E ty_id \in DOMAIN archetype.column_indices :
                  \/ ty_id \notin DOMAIN w.columns
                  \/ entity_idx >= VecLen(w.columns[ty_id][archetype.column_indices[ty_id]])
    IN  IF panic THEN [w |-> w, panic |-> TRUE]
        ELSE [w |-> [w EXCEPT
                 !.archetypes[entity_meta.archetype].entities = swap_remove(@, entity_idx),
                 !.columns = [ty_id \in DOMAIN w.columns |->
                     IF ty_id \in DOMAIN archetype.column_indices
                     THEN swap_remove_and_drop(w.columns[ty_id],
                                               archetype.column_indices[ty_id],
                                               entity_idx)
                     ELSE w.columns[ty_id]]],
              panic |-> FALSE]

\* a despawn that marks the entity dead and then calls handle_despawn
NoReservedEntities_despawn_marks_first(w, entity) ==
    IF is_alive(w, entity)
    THEN LET entity_meta == Unwrap(w.entities.meta[entity])
             marked == [w EXCEPT !.entities.meta[entity] = None]
             h == handle_despawn(marked, entity, entity_meta)
         IN  [w |-> h.w,
              calls |-> <<[entity_meta |-> entity_meta, w |-> marked]>>,
              panic |-> h.panic]
    ELSE [w |-> w, calls |-> <<>>, panic |-> FALSE]

\* NoReservedEntities::despawn on the World after the fix-up: calls holds,
\* for every call of handle_despawn, its argument and the World at the call
NoReservedEntities_despawn(w, entity) ==
    IF is_alive(w, entity)
    THEN LET entity_meta == Unwrap(w.entities.meta[entity])
             h == handle_despawn(w, entity, entity_meta)
         IN  [w |-> [h.w EXCEPT !.entities.meta[entity] = None],
              calls |-> <<[entity_meta |-> entity_meta, w |-> w]>>,
              panic |-> h.panic]
    ELSE [w |-> w, calls |-> <<>>, panic |-> FALSE]

\* fix-up of the reserved entities, then NoReservedEntities::despawn with the
\* closure that removes the entity's row from its archetype and from every
\* column of that archetype; the entity is marked dead after the closure
World_despawn(w, entity) ==
    LET r == NoReservedEntities_despawn(fix_reserved_entities(w), entity)
    IN  IF r.panic THEN [w |-> w, panic |-> TRUE]
        ELSE [w |-> r.w, panic |-> FALSE]

\* get_component_dynamic / get_component_mut_dynamic(_ct): None for a dead
\* entity or an absent component, else the cell columns[id][column_idx][entity_idx]
get_component_dynamic(w, entity, id) ==
    IF has_component_dynamic(w, entity, id) \in {None, Some(FALSE)} THEN None
    ELSE LET archetype_id == Unwrap(meta(w, entity)).archetype
             archetype == w.archetypes[archetype_id]
             entity_idx == Unwrap(get_entity_idx(archetype, entity))
             column_idx == archetype.column_indices[id]
         IN  Some(w.columns[id][column_idx][entity_idx])

\* a get_component that reads the first row of the column
get_component_first_row(w, T, entity) ==
    IF has_component(w, T, entity) \in {None, Some(FALSE)} THEN None
    ELSE LET ecs_type_id == Unwrap(type_to_ecs_type_id(w, T))
             archetype_id == Unwrap(meta(w, entity)).archetype
             archetype == w.archetypes[archetype_id]
             column_idx == archetype.column_indices[ecs_type_id]
         IN  Some(w.columns[ecs_type_id][column_idx][0])

\* get_component / get_component_mut
get_component(w, T, entity) ==
    IF has_component(w, T, entity) \in {None, Some(FALSE)} THEN None
    ELSE LET ecs_type_id == Unwrap(type_to_ecs_type_id(w, T))
             archetype_id == Unwrap(meta(w, entity)).archetype
             archetype == w.archetypes[archetype_id]
             entity_idx == Unwrap(get_entity_idx(archetype, entity))
             column_idx == archetype.column_indices[ecs_type_id]
         IN  Some(w.columns[ecs_type_id][column_idx][entity_idx])

\* the row and column slot of the cell that get_component(_dynamic) reads
cell_of(w, entity, id) ==
    LET archetype == w.archetypes[Unwrap(meta(w, entity)).archetype]
    IN  [column_idx |-> archetype.column_indices[id],
         entity_idx |-> Unwrap(get_entity_idx(archetype, entity))]

\* an insert_component whose overwrite hands back the new value
insert_component_returns_new(w, entity, T, component) ==
    LET t == type_to_ecs_type_id_or_create(w, T)
        ecs_type_id == t.ret
    IN  IF IsSome(get_component(t.w, T, entity))
        THEN LET c == cell_of(t.w, entity, ecs_type_id)
             IN  [w |-> [t.w EXCEPT
                            !.columns[ecs_type_id][c.column_idx][c.entity_idx] = component],
                  ret |-> Some(component),
                  panic |-> FALSE]
        ELSE LET m == move_entity_from_insert(t.w, entity, ecs_type_id)
             IN  IF ~m.some THEN [w |-> m.w, ret |-> None, panic |-> FALSE]
                 ELSE IF m.panic THEN [w |-> w, ret |-> None, panic |-> TRUE]
                 ELSE LET column_idx ==
                              m.w.archetypes[m.new_archetype].column_indices[ecs_type_id]
                      IN  [w |-> [m.w EXCEPT
                                     !.columns[ecs_type_id][column_idx] = push(@, component)],
                           ret |-> None,
                           panic |-> FALSE]

insert_component(w, entity, T, component) ==
    LET t == type_to_ecs_type_id_or_create(w, T)
        ecs_type_id == t.ret
    IN  IF IsSome(get_component(t.w, T, entity))
        THEN LET c == cell_of(t.w, entity, ecs_type_id)
             IN  [w |-> [t.w EXCEPT
                            !.columns[ecs_type_id][c.column_idx][c.entity_idx] = component],
                  ret |-> get_component(t.w, T, entity),
                  panic |-> FALSE]
        ELSE LET m == move_entity_from_insert(t.w, entity, ecs_type_id)
             IN  IF ~m.some THEN [w |-> m.w, ret |-> None, panic |-> FALSE]
                 ELSE IF m.panic THEN [w |-> w, ret |-> None, panic |-> TRUE]
                 ELSE LET column_idx ==
                              m.w.archetypes[m.new_archetype].column_indices[ecs_type_id]
                      IN  [w |-> [m.w EXCEPT
                                     !.columns[ecs_type_id][column_idx] = push(@, component)],
                           ret |-> None,
                           panic |-> FALSE]

\* component stands for the bytes that write_fn writes; the erased storage is
\* modelled element-wise (copy_to_insert_over_space hands back the old
\* element, realloc_if_full / incr_len append one element)
insert_component_dynamic(w, entity, id, component) ==
    IF IsSome(get_component_dynamic(w, entity, id))
    THEN LET c == cell_of(w, entity, id)
         IN  [w |-> [w EXCEPT !.columns[id][c.column_idx][c.entity_idx] = component],
              ret |-> get_component_dynamic(w, entity, id),
              panic |-> FALSE]
    ELSE LET m == move_entity_from_insert(w, entity, id)
         IN  IF ~m.some THEN [w |-> m.w, ret |-> None, panic |-> FALSE]
             ELSE IF m.panic \/ incr_len_panics(w, id)
             THEN [w |-> w, ret |-> None, panic |-> TRUE]
             ELSE LET column_idx == m.w.archetypes[m.new_archetype].column_indices[id]
                  IN  [w |-> [m.w EXCEPT !.columns[id][column_idx] = push(@, component)],
                       ret |-> None,
                       panic |-> FALSE]

\* the other columns migrate first; then the removed type's cell is taken
\* out of the old archetype's column by swap_remove(entity_idx)
\* a remove_component that hands back a copy and leaves the cell
remove_component_copies(w, entity, T) ==
    [w |-> w, ret |-> get_component(w, T, entity), panic |-> FALSE]

remove_component(w, entity, T) ==
    IF has_component(w, T, entity) \in {None, Some(FALSE)}
    THEN [w |-> w, ret |-> None, panic |-> FALSE]
    ELSE LET ecs_type_id == Unwrap(type_to_ecs_type_id(w, T))
             m == move_entity_from_remove(w, entity, ecs_type_id)
         IN  IF ~m.some THEN [w |-> w, ret |-> None, panic |-> FALSE]
             ELSE IF m.panic THEN [w |-> w, ret |-> None, panic |-> TRUE]
             ELSE LET column_idx ==
                          m.w.archetypes[m.old_archetype].column_indices[ecs_type_id]
                      column == m.w.columns[ecs_type_id][column_idx]
                  IN  IF m.ret >= VecLen(column)
                      THEN [w |-> w, ret |-> None, panic |-> TRUE]
                      ELSE [w |-> [m.w EXCEPT !.columns[ecs_type_id][column_idx] =
                                                  swap_remove(@, m.ret)],
                            ret |-> Some(column[m.ret]),
                            panic |-> FALSE]

remove_component_dynamic(w, entity, id) ==
    IF has_component_dynamic(w, entity, id) \in {None, Some(FALSE)}
    THEN [w |-> w, ret |-> None, panic |-> FALSE]
    ELSE LET m == move_entity_from_remove(w, entity, id)
         IN  IF ~m.some THEN [w |-> w, ret |-> None, panic |-> FALSE]
             ELSE IF m.panic THEN [w |-> w, ret |-> None, panic |-> TRUE]
             ELSE LET column_idx == m.w.archetypes[m.old_archetype].column_indices[id]
                      column == m.w.columns[id][column_idx]
                  IN  IF m.ret >= VecLen(column)
                      THEN [w |-> w, ret |-> None, panic |-> TRUE]
                      ELSE [w |-> [m.w EXCEPT !.columns[id][column_idx] =
                                                  swap_remove(@, m.ret)],
                            ret |-> Some(column[m.ret]),
                            panic |-> FALSE]

\* ------------------------------------------------------------------ SimpleWorld
\* the fuzz harness's reference model: data maps a live entity to its static
\* components (by TypeId) and its dynamic components (by EcsTypeId)
SimpleWorld_new == [ecs_type_ids |-> {}, despawned |-> {}, data |-> <<>>]

map_insert(m, k, v) == (k :> v) @@ m
map_remove(m, k) == [x \in DOMAIN m \ {k} |-> m[x]]

apply_Spawn(sw, spawned) ==
    [sw EXCEPT !.data = map_insert(@, spawned, [static |-> <<>>, dyn |-> <<>>])]

\* the reserved entities of w come alive, without components, at the
\* fix-up that the next spawn, despawn or CommandBuffer::apply performs
RECURSIVE apply_FixReserved(_, _)
apply_FixReserved(sw, w) ==
    LET reserved == {id \in VecLen(w.entities.meta) .. (w.entities.len - 1) :
                        id \notin DOMAIN sw.data}
    IN  IF reserved = {} THEN sw
        ELSE LET id == CHOOSE x \in reserved : \A y \in reserved : x <= y
             IN  apply_FixReserved(apply_Spawn(sw, id),
                                   [w EXCEPT !.entities.meta = push(@, None)])

apply_Despawn(sw, entity) ==
    [sw EXCEPT !.despawned = @ \cup {entity}, !.data = map_remove(@, entity)]

apply_Insert(sw, entity, type_id, component) ==
    IF entity \in DOMAIN sw.data
    THEN [sw EXCEPT !.data[entity].static = map_insert(@, type_id, component)]
    ELSE sw

apply_InsertDyn(sw, entity, type_id, component) ==
    IF entity \in DOMAIN sw.data
    THEN [sw EXCEPT !.data[entity].dyn = map_insert(@, type_id, component)]
    ELSE sw

apply_Remove(sw, entity, type_id) ==
    IF entity \in DOMAIN sw.data
    THEN [sw EXCEPT !.data[entity].static = map_remove(@, type_id)]
    ELSE sw

apply_RemoveDyn(sw, entity, type_id) ==
    IF entity \in DOMAIN sw.data
    THEN [sw EXCEPT !.data[entity].dyn = map_remove(@, type_id)]
    ELSE sw

\* ------------------------------------------------------------------ AlignedBytesVec
\* buf is a Vec of units of A bytes each; a unit is never split, so a unit
\* is one value here.  A Layout: size and align, in bytes
Layout(size, align) == [size |-> size, align |-> align]

index_range_of_element(size, align, idx) ==
    [start |-> (size * idx) \div align, end |-> (size * idx + size) \div align]

\* slice indexing panics outside of the slice
in_slice(len, range) == range.start <= range.end /\ range.end <= len

\* a pointer to the size bytes that start at a unit of buf
ElementPtr(self, start) == [start |-> start, units |-> self.size \div self.A]

\* the bytes behind a pointer, as the sequence of their units
read_element(buf, ptr) == [k \in 1..ptr.units |-> buf[ptr.start + k - 1]]

\* write_fn: size bytes written through the pointer
write_element(buf, ptr, element) ==
    [i \in DOMAIN buf |->
        IF i >= ptr.start /\ i < ptr.start + ptr.units
        THEN element[i - ptr.start + 1] ELSE buf[i]]

\* AlignedBytesVec::new; make_aligned_vec picks A = layout.align()
AlignedBytesVec_new(A, size) ==
    [A |-> A, inserted_over_space |-> resize(<<>>, size, 0), buf |-> <<>>,
     len_elements |-> 0, size |-> size]

AlignedBytesVec_new_panics(A, size) == ~(size = 0 \/ size % A = 0)

make_aligned_vec(layout) == AlignedBytesVec_new(layout.align, layout.size)

empty_of_same_layout(self) == AlignedBytesVec_new(self.A, self.size)

get_element_ptr_panics(self, idx) ==
    ~in_slice(VecLen(self.buf), index_range_of_element(self.size, self.A, idx))

get_element_ptr(self, idx) ==
    ElementPtr(self, index_range_of_element(self.size, self.A, idx).start)

realloc_if_full(self) ==
    IF self.size = 0 THEN self
    ELSE IF self.len_elements = VecLen(self.buf) \div self.size
    THEN IF VecLen(self.buf) = 0
         THEN [self EXCEPT !.buf = resize(@, self.size, 0)]
         ELSE [self EXCEPT !.buf = resize(@, VecLen(self.buf) * 2, 0)]
    ELSE self

\* with size 0 the assertion divides by zero
incr_len(self) ==
    IF self.size = 0 THEN [self |-> self, panic |-> TRUE]
    ELSE IF ~(self.len_elements < VecLen(self.buf) \div self.size)
    THEN [self |-> self, panic |-> TRUE]
    ELSE [self |-> [self EXCEPT !.len_elements = @ + 1], panic |-> FALSE]

\* the units of two slices swapped pairwise; zip stops with the shorter
swap_units(buf, a_start, b_start, n) ==
    [i \in DOMAIN buf |->
        IF i >= a_start /\ i < a_start + n THEN buf[b_start + (i - a_start)]
        ELSE IF i >= b_start /\ i < b_start + n THEN buf[a_start + (i - b_start)]
        ELSE buf[i]]

Min(a, b) == IF a <= b THEN a ELSE b

\* a swap_remove that shortens the vector and leaves the elements in place
AlignedBytesVec_swap_remove_truncates(self, idx) ==
    IF self.len_elements = 0 THEN [self |-> self, ret |-> None, panic |-> TRUE]
    ELSE LET shorter == [self EXCEPT !.len_elements = @ - 1]
         IN  [self |-> shorter,
              ret |-> Some(get_element_ptr(shorter, shorter.len_elements)),
              panic |-> get_element_ptr_panics(shorter, shorter.len_elements)]

\* AlignedBytesVec::swap_remove: the last element and the element at idx
\* change places, the length shrinks by one, and the answer points at the
\* slot behind the new end, where the removed element now lies
AlignedBytesVec_swap_remove(self, idx) ==
    IF self.len_elements = 0 THEN [self |-> self, ret |-> None, panic |-> TRUE]
    ELSE IF idx = self.len_elements - 1
    THEN LET shorter == [self EXCEPT !.len_elements = @ - 1]
         IN  [self |-> shorter,
              ret |-> Some(get_element_ptr(shorter, shorter.len_elements)),
              panic |-> get_element_ptr_panics(shorter, shorter.len_elements)]
    ELSE LET src == index_range_of_element(self.size, self.A, self.len_elements - 1)
             dst == index_range_of_element(self.size, self.A, idx)
             panic ==
                \/ src.start > VecLen(self.buf)
                \/ ~in_slice(VecLen(self.buf) - src.start, [start |-> 0, end |-> self.size])
                \/ ~in_slice(src.start, dst)
             swapped == [self EXCEPT
                 !.buf = swap_units(@, src.start, dst.start,
                                    Min(self.size, dst.end - dst.start)),
                 !.len_elements = @ - 1]
         IN  IF panic THEN [self |-> self, ret |-> None, panic |-> TRUE]
             ELSE [self |-> swapped,
                   ret |-> Some(get_element_ptr(swapped, swapped.len_elements)),
                   panic |-> get_element_ptr_panics(swapped, swapped.len_elements)]

\* AlignedBytesVec::swap_remove_move_to: the element at idx is copied
\* behind the end of other, then removed here
AlignedBytesVec_swap_remove_move_to(self, other, idx) ==
    IF self.len_elements = 0 THEN [self |-> self, other |-> other, panic |-> TRUE]
    ELSE LET room == realloc_if_full(other)
             src == index_range_of_element(self.size, self.A, idx)
             dst == index_range_of_element(room.size, self.A, room.len_elements)
             n == Min(src.end - src.start, dst.end - dst.start)
             copied == [room EXCEPT !.buf =
                          [i \in DOMAIN @ |->
                              IF i >= dst.start /\ i < dst.start + n
                              THEN self.buf[src.start + (i - dst.start)] ELSE @[i]]]
             longer == incr_len(copied)
             removed == AlignedBytesVec_swap_remove(self, idx)
         IN  IF \/ ~in_slice(VecLen(self.buf), src)
                \/ ~in_slice(VecLen(room.buf), dst)
                \/ longer.panic \/ removed.panic
             THEN [self |-> self, other |-> other, panic |-> TRUE]
             ELSE [self |-> removed.self, other |-> longer.self, panic |-> FALSE]

\* AlignedBytesVec::copy_to_insert_over_space: the element at idx is
\* copied to the front of inserted_over_space; the answer is a pointer to
\* the size bytes of the copy and a pointer to the element for the writer
copy_to_insert_over_space(self, idx) ==
    LET src == index_range_of_element(self.size, self.A, idx)
        n == Min(src.end - src.start, VecLen(self.inserted_over_space))
        copy == [i \in DOMAIN self.inserted_over_space |->
                    IF i < n THEN self.buf[src.start + i]
                    ELSE self.inserted_over_space[i]]
    IN  IF ~in_slice(VecLen(self.buf), src)
        THEN [self |-> self, inserted_over |-> None, uninit |-> None, panic |-> TRUE]
        ELSE [self |-> [self EXCEPT !.inserted_over_space = copy],
              inserted_over |-> Some(read_element(copy, ElementPtr(self, 0))),
              uninit |-> Some(ElementPtr(self, src.start)),
              panic |-> FALSE]

\* ------------------------------------------------------------------ commands
\* InsertCmd<T>(entity, component) and RemoveCmd<T>(entity)
InsertCmd(entity, T, component) ==
    [kind |-> "InsertCmd", entity |-> entity, T |-> T, component |-> component]
RemoveCmd(entity, T) == [kind |-> "RemoveCmd", entity |-> entity, T |-> T]

\* Command::apply of the two commands; the value the World operation
\* returns is dropped
Command_apply(cmd, w) ==
    IF cmd.kind = "InsertCmd"
    THEN insert_component(w, cmd.entity, cmd.T, cmd.component)
    ELSE remove_component(w, cmd.entity, cmd.T)

CommandBuffer_new == <<>>

\* a loop that takes the commands from the back of the buffer
RECURSIVE apply_popped(_, _)
apply_popped(cmds, r) ==
    IF cmds = <<>> \/ r.panic THEN r
    ELSE apply_popped(SubSeq(cmds, 1, Len(cmds) - 1),
                      Command_apply(cmds[Len(cmds)], r.w))

\* the loop of CommandBuffer::apply over drain(..): the commands in the
\* order of the buffer, each on the World the one before it left
RECURSIVE apply_drained(_, _)
apply_drained(cmds, r) ==
    IF cmds = <<>> \/ r.panic THEN r
    ELSE apply_drained(Tail(cmds), Command_apply(Head(cmds), r.w))

\* a CommandBuffer::apply that goes without the fix-up
CommandBuffer_apply_no_fix_up(self, w) ==
    LET r == apply_drained(self, [w |-> w, ret |-> None, panic |-> FALSE])
    IN  [self |-> <<>>, w |-> r.w, panic |-> r.panic]

\* CommandBuffer::apply: the fix-up of the reserved entities, then every
\* command; drain(..) leaves the buffer empty
CommandBuffer_apply(self, w) ==
    LET r == apply_drained(self, [w |-> fix_reserved_entities(w), ret |-> None,
                                  panic |-> FALSE])
    IN  [self |-> <<>>, w |-> r.w, panic |-> r.panic]

\* Commands::insert_component and Commands::remove_component: a push on
\* the buffer
Commands_insert_component(self, entity, T, component) ==
    Append(self, InsertCmd(entity, T, component))
Commands_remove_component(self, entity, T) ==
    Append(self, RemoveCmd(entity, T))

\* Commands::spawn: reserve_entity through the shared reference
Commands_spawn(w) == reserve_entity(w)

\* FunctionSystem with one Commands parameter: the CommandBuffer it keeps
\* as state, and whether run is between from_world and system_finish_event
FunctionSystem(state, running) == [state |-> state, running |-> running]

\* ------------------------------------------------------------------ SlowGhostCell
\* The heap of the Arc allocations: arcs maps the address of an allocation
\* to its strong count, its weak count (without the implicit one) and its
\* data, None once the last Arc is gone.  An address is free again when
\* both counts are 0.  A cell holds a Weak and a token an Arc; call is the
\* call of SlowGhostCell::new that made the allocation, the cell or the
\* token, kept for the properties.  upgraded holds the cells whose get_mut
\* is running.
Heap_new == [arcs |-> <<>>, cells |-> {}, tokens |-> {}, next_call |-> 0, upgraded |-> {}]

Allocation(call, strong, weak, data) ==
    [call |-> call, strong |-> strong, weak |-> weak, data |-> data]

SlowGhostCell(addr, call) == [addr |-> addr, call |-> call]
SlowGhostToken(addr, call) == [addr |-> addr, call |-> call]

\* the allocation is freed when no Arc and no Weak is left
freed(arcs) ==
    [addr \in {a \in DOMAIN arcs : arcs[a].strong > 0 \/ arcs[a].weak > 0} |-> arcs[addr]]

\* drop of an Arc: the data is dropped with the last one
Arc_drop(arcs, addr) ==
    freed([arcs EXCEPT ![addr] =
              Allocation(@.call, @.strong - 1, @.weak,
                         IF @.strong = 1 THEN None ELSE @.data)])

Weak_drop(arcs, addr) ==
    freed([arcs EXCEPT ![addr].weak = @ - 1])

\* SlowGhostCell::new(data, map) with the new allocation at addr.  map is
\* "coerce" for a closure that returns the Weak it was given, "clone" for
\* one that returns it and keeps a clone, "dangling" for one that returns
\* Weak::new().  The assertions abort for the last two; the unwinding
\* drops the Arc and the Weaks.
SlowGhostCell_new(h, addr, map) ==
    LET call == h.next_call
        made == [h EXCEPT
                    !.arcs = (addr :> Allocation(call, 1, 1, Some(call))) @@ @,
                    !.next_call = @ + 1]
        abort ==
            IF map = "dangling" THEN Some("[assert_eq as_ptr]")
            ELSE IF map = "clone" THEN Some("[assert_eq weak_count]")
            ELSE None
    IN  IF IsSome(abort)
        THEN [heap |-> [h EXCEPT !.next_call = @ + 1], abort |-> abort, ret |-> None]
        ELSE [heap |-> [made EXCEPT !.cells = @ \cup {SlowGhostCell(addr, call)},
                                    !.tokens = @ \cup {SlowGhostToken(addr, call)}],
              abort |-> None,
              ret |-> Some([cell |-> SlowGhostCell(addr, call),
                            token |-> SlowGhostToken(addr, call)])]

\* a deref that leaves out the comparison of the two addresses
SlowGhostCell_deref_any_token(h, self, token) ==
    IF h.arcs[token.addr].strong # 1
    THEN [abort |-> Some("[assert_eq strong_count]"), ret |-> None]
    ELSE IF h.arcs[token.addr].weak # 1
    THEN [abort |-> Some("[assert_eq weak_count]"), ret |-> None]
    ELSE [abort |-> None, ret |-> Some(token.addr)]

\* SlowGhostCell::deref and deref_mut: ret is the address of the data that
\* the reference points to, which is the data of the token's Arc
SlowGhostCell_deref(h, self, token) ==
    IF token.addr # self.addr
    THEN [abort |-> Some("[assert_eq as_ptr]"), ret |-> None]
    ELSE IF h.arcs[token.addr].strong # 1
    THEN [abort |-> Some("[assert_eq strong_count]"), ret |-> None]
    ELSE IF h.arcs[token.addr].weak # 1
    THEN [abort |-> Some("[assert_eq weak_count]"), ret |-> None]
    ELSE [abort |-> None, ret |-> Some(token.addr)]

\* SlowGhostCell::get_mut up to the call of func: the Weak is upgraded for
\* the time of the call; ret is the address of the data that func gets
SlowGhostCell_get_mut(h, self) ==
    LET a == h.arcs[self.addr]
    IN  IF ~(a.strong <= 1)
        THEN [heap |-> h, abort |-> Some("[assert strong_count]"), ret |-> None]
        ELSE IF a.strong = 0
        THEN [heap |-> h, abort |-> None, ret |-> None]
        ELSE IF a.weak # 1
        THEN [heap |-> h, abort |-> Some("[assert_eq weak_count]"), ret |-> None]
        ELSE [heap |-> [h EXCEPT !.arcs[self.addr].strong = @ + 1],
              abort |-> None, ret |-> Some(self.addr)]

\* ------------------------------------------------------------------ state
\* the entity ids handed out so far
IssuedEntities == 0..(world.entities.len - 1)

\* the growth of the two counters stays in the bounds
WithinBounds(w) ==
    /\ w.entities.len <= MaxEntities
    /\ w.next_ecs_type_id <= MaxEcsTypeIds

Init ==
    /\ world = World_new
    /\ simple_world = SimpleWorld_new
    /\ panicked = FALSE
    /\ query = None
    /\ borrow_flag = <<>>
    /\ queries = <<>>
    /\ result = None
    /\ function_system = FunctionSystem(CommandBuffer_new, FALSE)
    /\ erased_column = None
    /\ heap = Heap_new

\* the effect of one World operation with result r (fields w, ret, panic)
\* together with the harness's update sw of the reference model; the
\* harness drops the value that the operation returns.  The operation
\* takes &mut World: no Query and no result of World::query is alive and
\* no system is between its from_world and its system_finish_event
Step(r, sw) ==
    /\ ~panicked
    /\ ~function_system.running
    /\ query = None
    /\ queries = <<>>
    /\ result' = None
    /\ UNCHANGED <<borrow_flag, function_system, erased_column, heap>>
    /\ WithinBounds(r.w)
    /\ IF r.panic
       THEN /\ panicked' = TRUE
            /\ UNCHANGED <<world, simple_world, query, queries>>
       ELSE /\ world' = r.w
            /\ simple_world' = sw
            /\ UNCHANGED <<panicked, query, queries>>

\* setup of the harness: ecs_type_ids holds the ids of the dynamic types
NewDynamicEcsTypeId(layout_size) ==
    LET r == new_dynamic_ecs_type_id(world, layout_size)
    IN  Step([w |-> r.w, ret |-> None, panic |-> FALSE],
         [simple_world EXCEPT !.ecs_type_ids = @ \cup {r.ret}])

Spawn ==
    LET r == World_spawn(world)
    IN  Step([w |-> r.w, ret |-> None, panic |-> r.panic],
         apply_Spawn(apply_FixReserved(simple_world, world), r.ret))

Despawn(entity) ==
    LET r == World_despawn(world, entity)
    IN  Step([w |-> r.w, ret |-> None, panic |-> r.panic],
         apply_Despawn(apply_FixReserved(simple_world, world), entity))

Insert(entity, type_id, component) ==
    Step(insert_component(world, entity, type_id, component),
         apply_Insert(simple_world, entity, type_id, component))

InsertDyn(entity, type_id, component) ==
    Step(insert_component_dynamic(world, entity, type_id, component),
         apply_InsertDyn(simple_world, entity, type_id, component))

Remove(entity, type_id) ==
    Step(remove_component(world, entity, type_id),
         apply_Remove(simple_world, entity, type_id))

RemoveDyn(entity, type_id) ==
    Step(remove_component_dynamic(world, entity, type_id),
         apply_RemoveDyn(simple_world, entity, type_id))

\* Entities::reserve_entity through a shared reference (AddRemover::spawn)
ReserveEntity ==
    LET r == reserve_entity(world)
    IN  Step([w |-> r.w, ret |-> None, panic |-> FALSE], simple_world)

Next ==
    \/ \E layout_size \in LayoutSizes : NewDynamicEcsTypeId(layout_size)
    \/ Spawn
    \/ \E entity \in IssuedEntities : Despawn(entity)
    \/ \E entity \in IssuedEntities, type_id \in StaticTypes, component \in Values :
          Insert(entity, type_id, component)
    \/ \E entity \in IssuedEntities, type_id \in simple_world.ecs_type_ids, component \in Values :
          InsertDyn(entity, type_id, component)
    \/ \E entity \in IssuedEntities, type_id \in StaticTypes : Remove(entity, type_id)
    \/ \E entity \in IssuedEntities, type_id \in simple_world.ecs_type_ids :
          RemoveDyn(entity, type_id)

Spec == Init /\ [][Next]_vars

\* the typed operations together with reserve_entity
NextReserve ==
    \/ ReserveEntity
    \/ Spawn
    \/ \E entity \in IssuedEntities : Despawn(entity)
    \/ \E entity \in IssuedEntities, type_id \in StaticTypes, component \in Values :
          Insert(entity, type_id, component)
    \/ \E entity \in IssuedEntities, type_id \in StaticTypes : Remove(entity, type_id)

SpecReserve == Init /\ [][NextReserve]_vars

\* the typed operations alone: spawn, insert_component, remove_component
\* and despawn
NextTyped ==
    \/ Spawn
    \/ \E entity \in IssuedEntities : Despawn(entity)
    \/ \E entity \in IssuedEntities, type_id \in StaticTypes, component \in Values :
          Insert(entity, type_id, component)
    \/ \E entity \in IssuedEntities, type_id \in StaticTypes : Remove(entity, type_id)

SpecTyped == Init /\ [][NextTyped]_vars

\* ------------------------------------------------------------------ systems with Commands
\* the number of commands one CommandBuffer holds
MaxCommands == 2

\* the reference model after the commands, applied in order
RECURSIVE apply_Commands(_, _)
apply_Commands(sw, cmds) ==
    IF cmds = <<>> THEN sw
    ELSE apply_Commands(
             IF Head(cmds).kind = "InsertCmd"
             THEN apply_Insert(sw, Head(cmds).entity, Head(cmds).T, Head(cmds).component)
             ELSE apply_Remove(sw, Head(cmds).entity, Head(cmds).T),
             Tail(cmds))

\* a step of the body of a system: the World is lent out through a shared
\* reference and the buffer through a mutable one
BodyStep(w, state) ==
    /\ ~panicked
    /\ function_system.running
    /\ WithinBounds(w)
    /\ Len(state) <= MaxCommands
    /\ world' = w
    /\ function_system' = FunctionSystem(state, TRUE)
    /\ UNCHANGED <<simple_world, panicked, query, borrow_flag, queries, result, erased_column, heap>>

\* System::run up to the call of the body: from_world hands the state and
\* the World to Commands
RunStart ==
    /\ ~panicked
    /\ ~function_system.running
    /\ query = None
    /\ queries = <<>>
    /\ function_system' = FunctionSystem(function_system.state, TRUE)
    /\ result' = None
    /\ UNCHANGED <<world, simple_world, panicked, query, borrow_flag, queries, erased_column, heap>>

CommandsSpawn == BodyStep(Commands_spawn(world).w, function_system.state)

CommandsInsert(entity, T, component) ==
    BodyStep(world, Commands_insert_component(function_system.state, entity, T, component))

CommandsRemove(entity, T) ==
    BodyStep(world, Commands_remove_component(function_system.state, entity, T))

\* the end of System::run with the outcome r of system_finish_event; the
\* caller keeps the number of commands that the body recorded
FinishStep(r, sw, recorded) ==
    /\ ~panicked
    /\ function_system.running
    /\ WithinBounds(r.w)
    /\ panicked' = r.panic
    /\ world' = IF r.panic THEN world ELSE r.w
    /\ simple_world' = IF r.panic THEN simple_world ELSE sw
    /\ function_system' = FunctionSystem(r.self, FALSE)
    /\ result' = Some([recorded |-> Len(recorded)])
    /\ UNCHANGED <<query, borrow_flag, queries, erased_column, heap>>

\* the body returns: <Commands as SystemParam>::system_finish_event
RunFinish ==
    FinishStep(CommandBuffer_apply(function_system.state, world),
               apply_Commands(apply_FixReserved(simple_world, world),
                              function_system.state),
               function_system.state)

NextCommands ==
    \/ ReserveEntity
    \/ Spawn
    \/ \E entity \in IssuedEntities : Despawn(entity)
    \/ RunStart
    \/ CommandsSpawn
    \/ \E entity \in IssuedEntities, T \in StaticTypes, component \in Values :
          CommandsInsert(entity, T, component)
    \/ \E entity \in IssuedEntities, T \in StaticTypes : CommandsRemove(entity, T)
    \/ RunFinish

SpecCommands == Init /\ [][NextCommands]_vars

\* ------------------------------------------------------------------ queries
\* the terms of a query shape: Entity, the required borrows &T and &mut T,
\* and Maybe<Q> around a term
EntityTerm == [kind |-> "Entity"]
Ref(T) == [kind |-> "Ref", T |-> T]
RefMut(T) == [kind |-> "RefMut", T |-> T]
Maybe(Q) == [kind |-> "Maybe", Q |-> Q]

\* the shapes that are iterated: a shape is the tuple of its terms
QueryShapes ==
    {<<EntityTerm>>,
     <<EntityTerm, Ref("u32")>>,
     <<EntityTerm, Ref("u32"), Ref("u64")>>,
     <<Ref("u64")>>,
     <<EntityTerm, Maybe(Ref("u32")), Ref("u64")>>,
     <<Maybe(Ref("u32"))>>}

\* the borrow flag of the RefCell around a column family: n > 0 for n
\* shared borrows, -1 for a mutable borrow; flags holds the cells that are
\* borrowed, a cell that is absent from it is unused
borrow_of(flags, id) == IF id \in DOMAIN flags THEN flags[id] ELSE 0

set_borrow(flags, id, n) ==
    [i \in (DOMAIN flags \cup {id}) \ (IF n = 0 THEN {id} ELSE {}) |->
        IF i = id THEN n ELSE flags[i]]

\* a lock that is held: the cell and the kind of the borrow
Lock(id, mut) == [id |-> id, mut |-> mut]

\* the drop of a cell::Ref or cell::RefMut, and of a sequence of them
drop_lock(flags, lock) ==
    set_borrow(flags, lock.id, IF lock.mut THEN 0 ELSE borrow_of(flags, lock.id) - 1)

RECURSIVE drop_locks(_, _)
drop_locks(flags, locks) ==
    IF locks = <<>> THEN flags
    ELSE drop_locks(drop_lock(flags, Head(locks)), Tail(locks))

\* the answers of lock_from_world: Ok(Some(locks)), Ok(None) and
\* Err(WorldBorrowError), each with the borrow flags it leaves behind
LockOk(locks, flags) == [err |-> FALSE, lock |-> Some(locks), flags |-> flags]
LockNone(flags) == [err |-> FALSE, lock |-> None, flags |-> flags]
LockErr(flags) == [err |-> TRUE, lock |-> None, flags |-> flags]

\* a lock_from_world of &T that takes a type that is not registered for
\* an error
Ref_lock_from_world_err_unregistered(w, flags, T) ==
    IF type_to_ecs_type_id(w, T) = None THEN LockErr(flags)
    ELSE LET ecs_type_id == Unwrap(type_to_ecs_type_id(w, T))
         IN  IF ecs_type_id \notin DOMAIN w.columns THEN LockNone(flags)
             ELSE IF borrow_of(flags, ecs_type_id) >= 0
             THEN LockOk(<<Lock(ecs_type_id, FALSE)>>,
                         set_borrow(flags, ecs_type_id, borrow_of(flags, ecs_type_id) + 1))
             ELSE LockErr(flags)

\* <&T as QueryParam>::lock_from_world: Ok(None) for a component type
\* that is not registered, else try_borrow of the family's cell
Ref_lock_from_world(w, flags, T) ==
    IF type_to_ecs_type_id(w, T) = None THEN LockNone(flags)
    ELSE LET ecs_type_id == Unwrap(type_to_ecs_type_id(w, T))
         IN  IF ecs_type_id \notin DOMAIN w.columns THEN LockNone(flags)
             ELSE IF borrow_of(flags, ecs_type_id) >= 0
             THEN LockOk(<<Lock(ecs_type_id, FALSE)>>,
                         set_borrow(flags, ecs_type_id, borrow_of(flags, ecs_type_id) + 1))
             ELSE LockErr(flags)

\* a lock_from_world of &mut T that only a mutable borrow refuses
RefMut_lock_from_world_over_readers(w, flags, T) ==
    IF type_to_ecs_type_id(w, T) = None THEN LockNone(flags)
    ELSE LET ecs_type_id == Unwrap(type_to_ecs_type_id(w, T))
         IN  IF ecs_type_id \notin DOMAIN w.columns THEN LockNone(flags)
             ELSE IF borrow_of(flags, ecs_type_id) >= 0
             THEN LockOk(<<Lock(ecs_type_id, TRUE)>>, set_borrow(flags, ecs_type_id, -1))
             ELSE LockErr(flags)

\* <&mut T as QueryParam>::lock_from_world: try_borrow_mut of the cell
RefMut_lock_from_world(w, flags, T) ==
    IF type_to_ecs_type_id(w, T) = None THEN LockNone(flags)
    ELSE LET ecs_type_id == Unwrap(type_to_ecs_type_id(w, T))
         IN  IF ecs_type_id \notin DOMAIN w.columns THEN LockNone(flags)
             ELSE IF borrow_of(flags, ecs_type_id) = 0
             THEN LockOk(<<Lock(ecs_type_id, TRUE)>>, set_borrow(flags, ecs_type_id, -1))
             ELSE LockErr(flags)

\* QueryParam::lock_from_world of one term.  Entity locks nothing;
\* Maybe<Q> passes the error of Q on and wraps every other answer of Q in
\* Some, so that its lock holds what the lock of Q holds
RECURSIVE lock_from_world(_, _, _)
lock_from_world(w, flags, term) ==
    IF term.kind = "Entity" THEN LockOk(<<>>, flags)
    ELSE IF term.kind = "Ref" THEN Ref_lock_from_world(w, flags, term.T)
    ELSE IF term.kind = "RefMut" THEN RefMut_lock_from_world(w, flags, term.T)
    ELSE LET r == lock_from_world(w, flags, term.Q)
         IN  IF r.err THEN r
             ELSE LockOk(IF IsSome(r.lock) THEN Unwrap(r.lock) ELSE <<>>, r.flags)

\* the terms of a tuple lock from left to right, from term k on, held
\* being the locks of the terms before k; the first term that answers
\* Err or None ends the walk
RECURSIVE lock_terms(_, _, _, _, _)
lock_terms(w, flags, Q, k, held) ==
    IF k > Len(Q) THEN [err |-> FALSE, none |-> FALSE, held |-> held, flags |-> flags]
    ELSE LET r == lock_from_world(w, flags, Q[k])
         IN  IF r.err \/ r.lock = None
             THEN [err |-> r.err, none |-> ~r.err, held |-> held, flags |-> r.flags]
             ELSE lock_terms(w, r.flags, Q, k + 1, held \o Unwrap(r.lock))

\* a lock_from_world of a tuple that keeps the locks of the earlier terms
\* when a later term ends the call
tuple_lock_from_world_keeps_locks(w, flags, Q) ==
    LET r == lock_terms(w, flags, Q, 1, <<>>)
    IN  IF r.err THEN LockErr(r.flags)
        ELSE IF r.none THEN LockNone(r.flags)
        ELSE LockOk(r.held, r.flags)

\* lock_from_world of a tuple: the return of Err or of Ok(None) drops the
\* locks that the earlier terms had acquired
tuple_lock_from_world(w, flags, Q) ==
    LET r == lock_terms(w, flags, Q, 1, <<>>)
    IN  IF r.err THEN LockErr(drop_locks(r.flags, r.held))
        ELSE IF r.none THEN LockNone(drop_locks(r.flags, r.held))
        ELSE LockOk(r.held, r.flags)

\* World::query: Err, or the Query with its locks
World_query(w, flags, Q) == tuple_lock_from_world(w, flags, Q)

\* the drop of a Query drops its locks
Query_drop(flags, locks) ==
    IF IsSome(locks) THEN drop_locks(flags, Unwrap(locks)) ELSE flags

archetype_matches(w, term, archetype) ==
    IF term.kind \in {"Entity", "Maybe"} THEN TRUE
    ELSE IF type_to_ecs_type_id(w, term.T) = None THEN FALSE
    ELSE Unwrap(type_to_ecs_type_id(w, term.T)) \in DOMAIN archetype.column_indices

tuple_archetype_matches(w, Q, archetype) ==
    \A k \in DOMAIN Q : archetype_matches(w, Q[k], archetype)

\* a slice iterator that walks the slice from its end
slice_iter_rev(items) ==
    [items |-> [i \in DOMAIN items |-> items[VecLen(items) - 1 - i]], pos |-> 0]

\* a slice iterator: the slice and the position of the next item
slice_iter(items) == [items |-> items, pos |-> 0]

\* MaybeIter::Some(iter) and MaybeIter::None(remaining)
MaybeIter_Some(iter) == [some |-> TRUE, iter |-> iter]
MaybeIter_None(remaining) == [some |-> FALSE, remaining |-> remaining]

RECURSIVE item_iter_from_archetype(_, _, _)
\* an item_iter_from_archetype that reads the family's first storage
item_iter_from_archetype_first(w, term, archetype) ==
    IF term.kind = "Entity" THEN slice_iter(archetype.entities)
    ELSE IF term.kind = "Maybe"
    THEN IF archetype_matches(w, term.Q, archetype)
         THEN MaybeIter_Some(item_iter_from_archetype(w, term.Q, archetype))
         ELSE MaybeIter_None(VecLen(archetype.entities))
    ELSE LET ecs_type_id == Unwrap(type_to_ecs_type_id(w, term.T))
         IN  slice_iter(w.columns[ecs_type_id][0])

\* the entity list for Entity; for &T and &mut T the storage of the
\* archetype's column; for Maybe<Q> the iterator of Q where the archetype
\* matches Q and a countdown from the number of entities where it does not
item_iter_from_archetype(w, term, archetype) ==
    IF term.kind = "Entity" THEN slice_iter(archetype.entities)
    ELSE IF term.kind = "Maybe"
    THEN IF archetype_matches(w, term.Q, archetype)
         THEN MaybeIter_Some(item_iter_from_archetype(w, term.Q, archetype))
         ELSE MaybeIter_None(VecLen(archetype.entities))
    ELSE LET ecs_type_id == Unwrap(type_to_ecs_type_id(w, term.T))
             col == archetype.column_indices[ecs_type_id]
         IN  slice_iter(w.columns[ecs_type_id][col])

tuple_item_iter_from_archetype(w, Q, archetype) ==
    [k \in DOMAIN Q |-> item_iter_from_archetype(w, Q[k], archetype)]

\* slice::Iter::next
slice_iter_next(iter) ==
    IF iter.pos < VecLen(iter.items)
    THEN [iter |-> [iter EXCEPT !.pos = @ + 1], item |-> Some(iter.items[iter.pos])]
    ELSE [iter |-> iter, item |-> None]

\* a Maybe::advance_iter that hands out None where the entity has the value
Maybe_advance_iter_drops_value(inner_next, iter) ==
    IF iter.some
    THEN [iter |-> MaybeIter_Some(inner_next.iter),
          item |-> IF IsSome(inner_next.item) THEN Some(None) ELSE None]
    ELSE IF iter.remaining = 0 THEN [iter |-> iter, item |-> None]
    ELSE [iter |-> MaybeIter_None(iter.remaining - 1), item |-> Some(None)]

\* a Maybe::advance_iter whose countdown never counts down
Maybe_advance_iter_no_countdown(inner_next, iter) ==
    IF iter.some
    THEN [iter |-> MaybeIter_Some(inner_next.iter),
          item |-> IF IsSome(inner_next.item) THEN Some(inner_next.item) ELSE None]
    ELSE IF iter.remaining = 0 THEN [iter |-> iter, item |-> None]
    ELSE [iter |-> iter, item |-> Some(None)]

\* Maybe::advance_iter, inner_next being Q::advance_iter of the wrapped
\* iterator: Some(item) of Q's item, or Some(None) while the countdown runs
Maybe_advance_iter(inner_next, iter) ==
    IF iter.some
    THEN [iter |-> MaybeIter_Some(inner_next.iter),
          item |-> IF IsSome(inner_next.item) THEN Some(inner_next.item) ELSE None]
    ELSE IF iter.remaining = 0 THEN [iter |-> iter, item |-> None]
    ELSE [iter |-> MaybeIter_None(iter.remaining - 1), item |-> Some(None)]

\* QueryParam::advance_iter of one term
RECURSIVE advance_iter(_, _)
advance_iter(term, iter) ==
    IF term.kind = "Maybe"
    THEN Maybe_advance_iter(IF iter.some THEN advance_iter(term.Q, iter.iter)
                            ELSE [iter |-> iter, item |-> None],
                            iter)
    ELSE slice_iter_next(iter)

\* Some((A::advance_iter(a)?, B::advance_iter(b)?, ..)): the terms advance
\* from left to right and the first None ends the call
tuple_advance_iter(Q, iters) ==
    LET adv == [k \in DOMAIN iters |-> advance_iter(Q[k], iters[k])]
        stop == {k \in DOMAIN iters : adv[k].item = None}
    IN  IF stop = {}
        THEN [iters |-> [k \in DOMAIN iters |-> adv[k].iter],
              item |-> Some([k \in DOMAIN iters |-> Unwrap(adv[k].item)])]
        ELSE [iters |-> [k \in DOMAIN iters |->
                            IF \A j \in stop : k <= j THEN adv[k].iter ELSE iters[k]],
              item |-> None]

\* the filtered archetype iterator: archetype_iter is the index of the
\* next archetype of world.archetypes that the filter will look at
archetype_iter_next(w, Q, archetype_iter) ==
    LET matching == {a \in DOMAIN w.archetypes :
                        a >= archetype_iter /\ tuple_archetype_matches(w, Q, w.archetypes[a])}
    IN  IF matching = {} THEN None
        ELSE Some(CHOOSE a \in matching : \A b \in matching : a <= b)

\* Query::iter_mut of a Query with the given locks: borrows is None when
\* the locks are
QueryIter_new(Q, locks) ==
    [Q |-> Q,
     borrows |-> IsSome(locks),
     archetype_iter |-> 0,
     item_iters |-> None]

\* In of the value: the value is computed once, however often In uses it
let(value, In(_)) == CHOOSE y \in {In(v) : v \in {value}} : TRUE

RECURSIVE QueryIter_next(_, _)
QueryIter_next(w, it) ==
    IF ~it.borrows THEN [it |-> it, item |-> None]
    ELSE IF it.item_iters = None
    THEN let(archetype_iter_next(w, it.Q, it.archetype_iter), LAMBDA archetype :
             IF archetype = None
             THEN [it |-> [it EXCEPT !.archetype_iter = VecLen(w.archetypes)],
                   item |-> None]
             ELSE let([it EXCEPT !.archetype_iter = Unwrap(archetype) + 1,
                                 !.item_iters = Some(tuple_item_iter_from_archetype(
                                                    w, it.Q, w.archetypes[Unwrap(archetype)]))],
                      LAMBDA self : QueryIter_next(w, self)))
    ELSE let(tuple_advance_iter(it.Q, Unwrap(it.item_iters)), LAMBDA adv :
             IF IsSome(adv.item)
             THEN [it |-> [it EXCEPT !.item_iters = Some(adv.iters)], item |-> adv.item]
             ELSE let([it EXCEPT !.item_iters = None],
                      LAMBDA self : QueryIter_next(w, self)))

\* ------------------------------------------------------------------ column joins
\* the Joinable terms: WithEntities, a shared borrow of the Handle of a
\* column family, which carries the family's EcsTypeId, and Maybe(J) and
\* Unsatisfied(J) around a term
WithEntities == [kind |-> "WithEntities"]
Handle(id) == [kind |-> "Handle", id |-> id]
Unsatisfied(J) == [kind |-> "Unsatisfied", Q |-> J]

\* the shapes that are joined: the query shapes, and shapes with Unsatisfied
JoinShapes ==
    QueryShapes \cup
    {<<EntityTerm, Unsatisfied(Ref("u32"))>>,
     <<EntityTerm, Unsatisfied(Ref("u32")), Ref("u64")>>}

\* the join that asks for what the term of a query shape asks for
RECURSIVE joinable_of_term(_, _)
joinable_of_term(w, term) ==
    IF term.kind = "Entity" THEN WithEntities
    ELSE IF term.kind = "Maybe" THEN Maybe(joinable_of_term(w, term.Q))
    ELSE IF term.kind = "Unsatisfied" THEN Unsatisfied(joinable_of_term(w, term.Q))
    ELSE Handle(w.ecs_type_ids[term.T])

joinable_of(w, Q) == [k \in DOMAIN Q |-> joinable_of_term(w, Q[k])]

\* an Unsatisfied::archetype_matches that passes the answer of J on
Unsatisfied_archetype_matches_same(inner_matches) == inner_matches

\* Unsatisfied::archetype_matches, from J::archetype_matches
Unsatisfied_archetype_matches(inner_matches) == inner_matches = FALSE

RECURSIVE Joinable_archetype_matches(_, _)
Joinable_archetype_matches(term, archetype) ==
    IF term.kind \in {"WithEntities", "Maybe"} THEN TRUE
    ELSE IF term.kind = "Unsatisfied"
    THEN Unsatisfied_archetype_matches(Joinable_archetype_matches(term.Q, archetype))
    ELSE term.id \in DOMAIN archetype.column_indices

tuple_Joinable_archetype_matches(C, archetype) ==
    \A k \in DOMAIN C : Joinable_archetype_matches(C[k], archetype)

\* the iterator of the range start..end, and Range::next
Range(start, end) == [start |-> start, end |-> end]
Range_next(range) ==
    IF range.start < range.end
    THEN [iter |-> Range(range.start + 1, range.end), item |-> Some(range.start)]
    ELSE [iter |-> range, item |-> None]

\* the two sides of Either
Either_T(t) == [either |-> "T", t |-> t]
Either_U(u) == [either |-> "U", u |-> u]

RECURSIVE iter_from_archetype(_, _, _)
iter_from_archetype(w, term, archetype) ==
    IF term.kind = "WithEntities" THEN slice_iter(archetype.entities)
    ELSE IF term.kind = "Maybe"
    THEN IF Joinable_archetype_matches(term.Q, archetype)
         THEN Either_T(iter_from_archetype(w, term.Q, archetype))
         ELSE Either_U(Range(0, VecLen(archetype.entities)))
    ELSE IF term.kind = "Unsatisfied" THEN Range(0, VecLen(archetype.entities))
    ELSE slice_iter(w.columns[term.id][archetype.column_indices[term.id]])

tuple_iter_from_archetype(w, C, archetype) ==
    [k \in DOMAIN C |-> iter_from_archetype(w, C[k], archetype)]

\* Joinable::advance_iter of one term: Maybe maps the item of J to Some and
\* the numbers of its range to None, Unsatisfied maps the numbers of its
\* range to the unit value
RECURSIVE Joinable_advance_iter(_, _)
Joinable_advance_iter(term, iter) ==
    IF term.kind = "Maybe"
    THEN IF iter.either = "T"
         THEN LET adv == Joinable_advance_iter(term.Q, iter.t)
              IN  [iter |-> Either_T(adv.iter),
                   item |-> IF IsSome(adv.item) THEN Some(adv.item) ELSE None]
         ELSE LET adv == Range_next(iter.u)
              IN  [iter |-> Either_U(adv.iter),
                   item |-> IF IsSome(adv.item) THEN Some(None) ELSE None]
    ELSE IF term.kind = "Unsatisfied"
    THEN LET adv == Range_next(iter)
         IN  [iter |-> adv.iter, item |-> IF IsSome(adv.item) THEN Some(<<>>) ELSE None]
    ELSE slice_iter_next(iter)

tuple_Joinable_advance_iter(C, iters) ==
    LET adv == [k \in DOMAIN iters |-> Joinable_advance_iter(C[k], iters[k])]
        stop == {k \in DOMAIN iters : adv[k].item = None}
    IN  IF stop = {}
        THEN [iters |-> [k \in DOMAIN iters |-> adv[k].iter],
              item |-> Some([k \in DOMAIN iters |-> Unwrap(adv[k].item)])]
        ELSE [iters |-> [k \in DOMAIN iters |->
                            IF \A j \in stop : k <= j THEN adv[k].iter ELSE iters[k]],
              item |-> None]

\* Joinable::make_locks of one term: the shared borrow of the cell of the
\* Handle, which Maybe and Unsatisfied pass on; WithEntities locks nothing
RECURSIVE make_locks(_)
make_locks(term) ==
    IF term.kind = "WithEntities" THEN <<>>
    ELSE IF term.kind \in {"Maybe", "Unsatisfied"} THEN make_locks(term.Q)
    ELSE <<Lock(term.id, FALSE)>>

RECURSIVE tuple_make_locks(_)
tuple_make_locks(C) ==
    IF C = <<>> THEN <<>> ELSE make_locks(Head(C)) \o tuple_make_locks(Tail(C))

\* the borrow flags with the given shared borrows added
RECURSIVE borrow_all(_, _)
borrow_all(flags, locks) ==
    IF locks = <<>> THEN flags
    ELSE borrow_all(set_borrow(flags, Head(locks).id, borrow_of(flags, Head(locks).id) + 1),
                    Tail(locks))

\* ColumnLocks::new followed by ColumnIterator::new
ColumnIterator_new(w, C) ==
    [C |-> C, archetype_iter |-> 0, column_iter |-> None]

RECURSIVE ColumnIterator_next(_, _)
ColumnIterator_next(w, it) ==
    IF IsSome(it.column_iter)
    THEN let(tuple_Joinable_advance_iter(it.C, Unwrap(it.column_iter)), LAMBDA adv :
             IF IsSome(adv.item)
             THEN [it |-> [it EXCEPT !.column_iter = Some(adv.iters)], item |-> adv.item]
             ELSE let([it EXCEPT !.column_iter = None],
                      LAMBDA self : ColumnIterator_next(w, self)))
    ELSE let({a \in DOMAIN w.archetypes :
                 /\ a >= it.archetype_iter
                 /\ tuple_Joinable_archetype_matches(it.C, w.archetypes[a])},
             LAMBDA matching :
             IF matching = {}
             THEN [it |-> [it EXCEPT !.archetype_iter = VecLen(w.archetypes)],
                   item |-> None]
             ELSE let(CHOOSE a \in matching : \A b \in matching : a <= b, LAMBDA a :
                      let([it EXCEPT !.archetype_iter = a + 1,
                                     !.column_iter = Some(tuple_iter_from_archetype(
                                                         w, it.C, w.archetypes[a]))],
                          LAMBDA self : ColumnIterator_next(w, self))))

\* ------------------------------------------------------------------ iteration
\* a query or a join borrows the World: while it is alive no operation
\* that needs &mut World runs.  yielded is the sequence of rows the caller
\* has been handed, done says that next has returned None
Iterating(kind, Q, locks, it) ==
    Some([kind |-> kind, Q |-> Q, locks |-> locks, iter |-> it,
          yielded |-> <<>>, done |-> FALSE])

Yield(r) ==
    query' = Some([Unwrap(query) EXCEPT
                      !.iter = r.it,
                      !.yielded = IF IsSome(r.item) THEN Append(@, Unwrap(r.item)) ELSE @,
                      !.done = (r.item = None)])

\* World::query(..).unwrap() followed by Query::iter_mut
QueryStart(Q) ==
    /\ ~panicked
    /\ query = None
    /\ queries = <<>>
    /\ LET r == World_query(world, borrow_flag, Q)
       IN  /\ ~r.err
           /\ query' = Iterating("QueryIter", Q, r.lock, QueryIter_new(Q, r.lock))
           /\ borrow_flag' = r.flags
    /\ result' = None
    /\ UNCHANGED <<world, simple_world, panicked, queries, function_system, erased_column, heap>>

QueryNext ==
    /\ query # None
    /\ Unwrap(query).kind = "QueryIter"
    /\ ~Unwrap(query).done
    /\ Yield(QueryIter_next(world, Unwrap(query).iter))
    /\ UNCHANGED <<world, simple_world, panicked, borrow_flag, queries, result, function_system, erased_column, heap>>

\* the component types that the terms of a shape name
RECURSIVE types_of_term(_)
types_of_term(term) ==
    IF term.kind = "Entity" THEN {}
    ELSE IF term.kind \in {"Maybe", "Unsatisfied"} THEN types_of_term(term.Q)
    ELSE {term.T}

types_of(Q) == UNION {types_of_term(Q[k]) : k \in DOMAIN Q}

\* the handles of a join exist once their component types are registered
JoinStart(Q) ==
    /\ ~panicked
    /\ query = None
    /\ queries = <<>>
    /\ \A T \in types_of(Q) : T \in DOMAIN world.ecs_type_ids
    /\ LET C == joinable_of(world, Q)
       IN  /\ query' = Iterating("ColumnIterator", Q, Some(tuple_make_locks(C)),
                                 ColumnIterator_new(world, C))
           /\ borrow_flag' = borrow_all(borrow_flag, tuple_make_locks(C))
    /\ result' = None
    /\ UNCHANGED <<world, simple_world, panicked, queries, function_system, erased_column, heap>>

JoinNext ==
    /\ query # None
    /\ Unwrap(query).kind = "ColumnIterator"
    /\ ~Unwrap(query).done
    /\ Yield(ColumnIterator_next(world, Unwrap(query).iter))
    /\ UNCHANGED <<world, simple_world, panicked, borrow_flag, queries, result, function_system, erased_column, heap>>

\* the iterator and the locks are dropped
QueryDrop ==
    /\ query # None
    /\ query' = None
    /\ borrow_flag' = Query_drop(borrow_flag, Unwrap(query).locks)
    /\ UNCHANGED <<world, simple_world, panicked, queries, result, function_system, erased_column, heap>>

\* the typed operations together with queries and joins
NextQuery ==
    \/ Spawn
    \/ \E entity \in IssuedEntities : Despawn(entity)
    \/ \E entity \in IssuedEntities, type_id \in StaticTypes, component \in Values :
          Insert(entity, type_id, component)
    \/ \E entity \in IssuedEntities, type_id \in StaticTypes : Remove(entity, type_id)
    \/ \E Q \in QueryShapes : QueryStart(Q)
    \/ QueryNext
    \/ \E Q \in JoinShapes : JoinStart(Q)
    \/ JoinNext
    \/ QueryDrop

SpecQuery == Init /\ [][NextQuery]_vars

\* ------------------------------------------------------------------ borrows
\* the shapes that World::query is called with while other queries live
BorrowShapes ==
    {<<Ref("u32")>>,
     <<RefMut("u32")>>,
     <<RefMut("u32"), Ref("u64")>>,
     <<Ref("u64"), RefMut("u32")>>,
     <<Ref("u32"), RefMut("u32")>>,
     <<Maybe(Ref("u32"))>>}

\* the number of Query values that are held at a time
MaxQueries == 2

\* the outcome of a call of World::query on shape Q
QueryResult(Q, r) == Some([Q |-> Q, err |-> r.err])

\* let q = world.query::<Q>(): Ok(q) joins the queries that are alive,
\* Err(WorldBorrowError) leaves nothing behind
QueryCall(Q) ==
    /\ ~panicked
    /\ query = None
    /\ Len(queries) < MaxQueries
    /\ LET r == World_query(world, borrow_flag, Q)
       IN  /\ result' = QueryResult(Q, r)
           /\ borrow_flag' = r.flags
           /\ queries' = IF r.err THEN queries
                         ELSE Append(queries, [Q |-> Q, locks |-> r.lock])
    /\ UNCHANGED <<world, simple_world, panicked, query, function_system, erased_column, heap>>

\* drop(q) of the i-th Query that is alive
QueryDropAt(i) ==
    /\ i \in DOMAIN queries
    /\ queries' = [k \in 1..(Len(queries) - 1) |->
                      IF k < i THEN queries[k] ELSE queries[k + 1]]
    /\ borrow_flag' = Query_drop(borrow_flag, queries[i].locks)
    /\ result' = None
    /\ UNCHANGED <<world, simple_world, panicked, query, function_system, erased_column, heap>>

\* spawn and insert_component build the World, queries come and go
NextBorrow ==
    \/ Spawn
    \/ \E entity \in IssuedEntities, type_id \in StaticTypes, component \in Values :
          Insert(entity, type_id, component)
    \/ \E Q \in BorrowShapes : QueryCall(Q)
    \/ \E i \in 1..MaxQueries : QueryDropAt(i)

SpecBorrow == Init /\ [][NextBorrow]_vars

\* ------------------------------------------------------------------ properties
\* the value the reference model holds for an entity and an EcsTypeId:
\* a dynamic component by its id, a static one by the TypeId registered for it
simple_component(entity, id) ==
    IF entity \notin DOMAIN simple_world.data THEN None
    ELSE IF id \in simple_world.ecs_type_ids
    THEN IF id \in DOMAIN simple_world.data[entity].dyn
         THEN Some(simple_world.data[entity].dyn[id])
         ELSE None
    ELSE LET Ts == {T \in DOMAIN simple_world.data[entity].static :
                        type_to_ecs_type_id(world, T) = Some(id)}
         IN  IF Ts = {} THEN None
             ELSE Some(simple_world.data[entity].static[CHOOSE T \in Ts : TRUE])

\* C1: in every archetype every column has as many cells as the entity list
\* has entries, and the cell at row i is the value of the entity at row i
RowAlignment ==
    \A a \in DOMAIN world.archetypes :
        \A ty \in DOMAIN world.archetypes[a].column_indices :
            LET archetype == world.archetypes[a]
                col == archetype.column_indices[ty]
            IN  /\ ty \in DOMAIN world.columns
                /\ col \in DOMAIN world.columns[ty]
                /\ VecLen(world.columns[ty][col]) = VecLen(archetype.entities)
                /\ \A i \in DOMAIN archetype.entities :
                      Some(world.columns[ty][col][i]) =
                          simple_component(archetype.entities[i], ty)

\* an archetype with two columns holds two entities whose rows differ in
\* both columns: the rows got there by migrations through other archetypes
RowAlignmentWitness ==
    \E a \in DOMAIN world.archetypes :
        LET archetype == world.archetypes[a]
        IN  /\ Cardinality(DOMAIN archetype.column_indices) = 2
            /\ VecLen(archetype.entities) = 2
            /\ \A ty \in DOMAIN archetype.column_indices :
                  LET column == world.columns[ty][archetype.column_indices[ty]]
                  IN  VecLen(column) = 2 /\ column[0] # column[1]

\* C2: the World agrees with the reference model: liveness, has_component
\* and get_component, for static and for dynamic components
Agreement ==
    /\ \A entity \in 0..world.entities.len :
          is_alive(world, entity) <=> entity \in DOMAIN simple_world.data
    /\ \A entity \in DOMAIN simple_world.data :
          /\ \A T \in StaticTypes :
                /\ has_component(world, T, entity) =
                      Some(T \in DOMAIN simple_world.data[entity].static)
                /\ get_component(world, T, entity) =
                      IF T \in DOMAIN simple_world.data[entity].static
                      THEN Some(simple_world.data[entity].static[T])
                      ELSE None
          /\ \A id \in simple_world.ecs_type_ids :
                /\ has_component_dynamic(world, entity, id) =
                      Some(id \in DOMAIN simple_world.data[entity].dyn)
                /\ get_component_dynamic(world, entity, id) =
                      IF id \in DOMAIN simple_world.data[entity].dyn
                      THEN Some(simple_world.data[entity].dyn[id])
                      ELSE None
    /\ \A entity \in (0..world.entities.len) \ DOMAIN simple_world.data :
          /\ \A T \in StaticTypes : get_component(world, T, entity) = None
          /\ \A id \in simple_world.ecs_type_ids :
                get_component_dynamic(world, entity, id) = None

\* a live entity holds a static and a dynamic component with different
\* values while another entity has been despawned
AgreementWitness ==
    \E entity \in DOMAIN simple_world.data, T \in StaticTypes, id \in simple_world.ecs_type_ids :
        /\ IsSome(get_component(world, T, entity))
        /\ IsSome(get_component_dynamic(world, entity, id))
        /\ get_component(world, T, entity) # get_component_dynamic(world, entity, id)
        /\ simple_world.despawned # {}

\* C3: no two archetypes have the same set of EcsTypeIds
ArchetypeUniqueness ==
    \A a, b \in DOMAIN world.archetypes :
        a # b => DOMAIN world.archetypes[a].column_indices
                    # DOMAIN world.archetypes[b].column_indices

\* all four archetypes over two type ids exist, and an entity has come back
\* to the empty archetype after the others were created
ArchetypeUniquenessWitness ==
    /\ VecLen(world.archetypes) = 4
    /\ VecLen(world.archetypes[0].entities) = 2

\* the places <<archetype, row>> where an entity occurs in an entity list
occurrences(w, entity) ==
    {p \in UNION {{<<a, i>> : i \in DOMAIN w.archetypes[a].entities} : a \in DOMAIN w.archetypes} :
        w.archetypes[p[1]].entities[p[2]] = entity}

\* C4: a live entity occurs exactly once, in the archetype of its
\* EntityMeta; a dead or not yet fixed-up entity occurs nowhere
Membership ==
    \A entity \in 0..world.entities.len :
        IF is_alive(world, entity)
        THEN /\ Cardinality(occurrences(world, entity)) = 1
             /\ \A p \in occurrences(world, entity) :
                   p[1] = Unwrap(meta(world, entity)).archetype
        ELSE occurrences(world, entity) = {}

\* one entity lives outside archetype 0 while another one is reserved and
\* not fixed up
MembershipWitness ==
    /\ world.entities.len > VecLen(world.entities.meta)
    /\ \E entity \in DOMAIN world.entities.meta :
          /\ is_alive(world, entity)
          /\ Unwrap(meta(world, entity)).archetype # 0

\* C5: for a live entity without T, insert_component then remove_component
\* gives back the inserted value, puts the entity back into the archetype it
\* was in, and leaves every other component of every entity as it was
RoundTrip ==
    \A entity \in IssuedEntities, T \in StaticTypes, v \in Values :
        (is_alive(world, entity) /\ get_component(world, T, entity) = None) =>
            LET i == insert_component(world, entity, T, v)
                r == remove_component(i.w, entity, T)
            IN  /\ ~i.panic
                /\ i.ret = None
                /\ get_component(i.w, T, entity) = Some(v)
                /\ ~r.panic
                /\ r.ret = Some(v)
                /\ meta(r.w, entity) = meta(world, entity)
                /\ \A e2 \in IssuedEntities :
                      /\ is_alive(r.w, e2) <=> is_alive(world, e2)
                      /\ \A T2 \in StaticTypes :
                            get_component(r.w, T2, e2) = get_component(world, T2, e2)
                      /\ \A id \in DOMAIN world.sizes :
                            get_component_dynamic(r.w, e2, id)
                                = get_component_dynamic(world, e2, id)

\* nothing has been despawned, and the archetype with two columns, which
\* an entity enters only by an insert out of the one-column archetype, is
\* empty again: the entity was moved back by the remove, next to another
\* entity of the one-column archetype that holds a different value
RoundTripWitness ==
    /\ simple_world.despawned = {}
    /\ VecLen(world.archetypes) = 3
    /\ Cardinality(DOMAIN world.archetypes[1].column_indices) = 1
    /\ Cardinality(DOMAIN world.archetypes[2].column_indices) = 2
    /\ VecLen(world.archetypes[2].entities) = 0
    /\ VecLen(world.archetypes[1].entities) = 2
    /\ \E T \in StaticTypes :
          /\ IsSome(get_component(world, T, world.archetypes[1].entities[0]))
          /\ get_component(world, T, world.archetypes[1].entities[0])
                # get_component(world, T, world.archetypes[1].entities[1])

\* C6: an insert of a type the entity already has hands back the value that
\* was stored, stores the new one, and changes no archetype, no entity
\* list, no metadata and no other cell
OverwriteFrame ==
    /\ \A entity \in IssuedEntities, T \in StaticTypes, v \in Values :
          IsSome(get_component(world, T, entity)) =>
              LET r == insert_component(world, entity, T, v)
              IN  /\ ~r.panic
                  /\ r.ret = get_component(world, T, entity)
                  /\ get_component(r.w, T, entity) = Some(v)
                  /\ r.w.archetypes = world.archetypes
                  /\ r.w.entities = world.entities
                  /\ \A e2 \in IssuedEntities, T2 \in StaticTypes :
                        <<e2, T2>> # <<entity, T>> =>
                            get_component(r.w, T2, e2) = get_component(world, T2, e2)
    /\ \A entity \in IssuedEntities, id \in DOMAIN world.sizes, v \in Values :
          IsSome(get_component_dynamic(world, entity, id)) =>
              LET r == insert_component_dynamic(world, entity, id, v)
              IN  /\ ~r.panic
                  /\ r.ret = get_component_dynamic(world, entity, id)
                  /\ get_component_dynamic(r.w, entity, id) = Some(v)
                  /\ r.w.archetypes = world.archetypes
                  /\ r.w.entities = world.entities
                  /\ \A e2 \in IssuedEntities, id2 \in DOMAIN world.columns :
                        <<e2, id2>> # <<entity, id>> =>
                            get_component_dynamic(r.w, e2, id2)
                                = get_component_dynamic(world, e2, id2)

\* an entity that shares its archetype with another one holds a dynamic
\* component, and insert_component_dynamic with a different value hands
\* back the stored one
OverwriteFrameWitness ==
    \E entity \in IssuedEntities, id \in DOMAIN world.sizes, v \in Values :
        /\ IsSome(get_component_dynamic(world, entity, id))
        /\ get_component_dynamic(world, entity, id) # Some(v)
        /\ VecLen(world.archetypes[Unwrap(meta(world, entity)).archetype].entities) = 2
        /\ insert_component_dynamic(world, entity, id, v).ret
              = get_component_dynamic(world, entity, id)

\* the rows that iterating the query shape Q hands out, from first to last
RECURSIVE drain(_, _, _)
drain(w, it, rows) ==
    LET r == QueryIter_next(w, it)
    IN  IF r.item = None THEN rows
        ELSE drain(w, r.it, Append(rows, Unwrap(r.item)))

query_rows(w, Q) == drain(w, QueryIter_new(Q, World_query(w, <<>>, Q).lock), <<>>)

\* C7: despawn of a live entity makes it dead, takes it out of every entity
\* list, shortens every column of its former archetype by its cell, and no
\* query over a component it had has a row for it
DespawnPurges ==
    [][\A entity \in IssuedEntities :
          (Despawn(entity) /\ is_alive(world, entity)) =>
              LET former == Unwrap(meta(world, entity)).archetype
                  old == world.archetypes[former]
                  new == world'.archetypes[former]
              IN  /\ ~panicked'
                  /\ ~is_alive(world', entity)
                  /\ occurrences(world', entity) = {}
                  /\ VecLen(new.entities) = VecLen(old.entities) - 1
                  /\ \A ty \in DOMAIN old.column_indices :
                        LET col == old.column_indices[ty]
                        IN  /\ VecLen(world'.columns[ty][col]) = VecLen(new.entities)
                            /\ \A i \in DOMAIN new.entities :
                                  Some(world'.columns[ty][col][i]) =
                                      get_component_dynamic(world, new.entities[i], ty)
                  /\ \A T \in StaticTypes :
                        has_component(world, T, entity) = Some(TRUE) =>
                            \A i \in DOMAIN query_rows(world', <<EntityTerm, Ref(T)>>) :
                                query_rows(world', <<EntityTerm, Ref(T)>>)[i][1] # entity
      ]_vars

\* an entity is dead while the archetype with both columns still holds the
\* other entity's row
DespawnPurgesWitness ==
    /\ simple_world.despawned # {}
    /\ \E a \in DOMAIN world.archetypes :
          /\ Cardinality(DOMAIN world.archetypes[a].column_indices) = 2
          /\ VecLen(world.archetypes[a].entities) = 1
          /\ \E e \in simple_world.despawned : e < world.archetypes[a].entities[0]

\* the entities that have been despawned
Despawned(w) == {e \in DOMAIN w.entities.meta : w.entities.meta[e] = None}

RECURSIVE term_holds(_, _)
term_holds(term, entity) ==
    IF term.kind \in {"Entity", "Maybe"} THEN TRUE
    ELSE IF term.kind = "Unsatisfied" THEN ~term_holds(term.Q, entity)
    ELSE term.T \in DOMAIN simple_world.data[entity].static

RECURSIVE expected_item(_, _)
expected_item(term, entity) ==
    IF term.kind = "Entity" THEN entity
    ELSE IF term.kind = "Maybe"
    THEN IF term_holds(term.Q, entity) THEN Some(expected_item(term.Q, entity)) ELSE None
    ELSE IF term.kind = "Unsatisfied" THEN <<>>
    ELSE simple_world.data[entity].static[term.T]

\* the row that the reference model holds for a live entity
expected_row(Q, entity) == [k \in DOMAIN Q |-> expected_item(Q[k], entity)]

\* the entity is alive and every term of the shape lets its row through
qualifies(Q, entity) ==
    /\ entity \in DOMAIN simple_world.data
    /\ \A k \in DOMAIN Q : term_holds(Q[k], entity)

\* the shape has Entity and required borrows only
required_only(Q) == \A k \in DOMAIN Q : Q[k].kind \in {"Entity", "Ref", "RefMut"}

\* C9: a query of Entity and required borrows hands out one row for every
\* live entity that has all the borrowed types, no row for any other
\* entity, and each row holds the entity's id and its own values
QueryRows ==
    (query # None /\ Unwrap(query).Q[1].kind = "Entity" /\ required_only(Unwrap(query).Q)) =>
        LET Q == Unwrap(query).Q
            yielded == Unwrap(query).yielded
        IN  /\ \A i \in DOMAIN yielded :
                  /\ qualifies(Q, yielded[i][1])
                  /\ yielded[i] = expected_row(Q, yielded[i][1])
            /\ \A i, j \in DOMAIN yielded : yielded[i][1] = yielded[j][1] => i = j
            /\ Unwrap(query).done =>
                  \A entity \in IssuedEntities :
                      qualifies(Q, entity) => \E i \in DOMAIN yielded : yielded[i][1] = entity

\* a finished query of (Entity, &u32, &u64) has handed out a row while a
\* live entity with only one of the two types got none
QueryRowsWitness ==
    /\ query # None
    /\ Unwrap(query).kind = "QueryIter"
    /\ Unwrap(query).done
    /\ Unwrap(query).Q = <<EntityTerm, Ref("u32"), Ref("u64")>>
    /\ Len(Unwrap(query).yielded) = 1
    /\ \E entity \in DOMAIN simple_world.data :
          /\ ~qualifies(Unwrap(query).Q, entity)
          /\ DOMAIN simple_world.data[entity].static # {}

\* the rows of the entities of one entity list, in its order, that the
\* shape lets through
RECURSIVE rows_of(_, _, _)
rows_of(Q, entities, i) ==
    IF i >= VecLen(entities) THEN <<>>
    ELSE (IF qualifies(Q, entities[i]) THEN <<expected_row(Q, entities[i])>> ELSE <<>>)
         \o rows_of(Q, entities, i + 1)

\* the rows in the order of the archetype table and, inside an archetype,
\* of its entity list
RECURSIVE rows_in_order(_, _, _)
rows_in_order(w, Q, a) ==
    IF a >= VecLen(w.archetypes) THEN <<>>
    ELSE rows_of(Q, w.archetypes[a].entities, 0) \o rows_in_order(w, Q, a + 1)

\* C10: the rows come grouped by archetype, the archetypes in the order of
\* their creation, the rows of one archetype in the order of its entity list
QueryOrder ==
    query # None =>
        LET yielded == Unwrap(query).yielded
            expected == rows_in_order(world, Unwrap(query).Q, 0)
        IN  /\ Len(yielded) <= Len(expected)
            /\ yielded = SubSeq(expected, 1, Len(yielded))
            /\ Unwrap(query).done => yielded = expected

\* a finished join has handed out two rows from two archetypes, the entity
\* with the greater id first
QueryOrderWitness ==
    /\ query # None
    /\ Unwrap(query).kind = "ColumnIterator"
    /\ Unwrap(query).done
    /\ Unwrap(query).Q = <<EntityTerm, Ref("u32")>>
    /\ Len(Unwrap(query).yielded) = 2
    /\ Unwrap(query).yielded[1][1] > Unwrap(query).yielded[2][1]
    /\ meta(world, Unwrap(query).yielded[1][1]) # meta(world, Unwrap(query).yielded[2][1])

\* C11: in a tuple query with Entity first, a Maybe<T> term lets every row
\* through and holds Some(the entity's own T) exactly where the entity has
\* T and None elsewhere; an Unsatisfied<T> term lets through exactly the
\* entities without T and holds the unit value
MaybeUnsatisfied ==
    (query # None /\ Unwrap(query).Q[1].kind = "Entity" /\ ~required_only(Unwrap(query).Q)) =>
        LET Q == Unwrap(query).Q
            yielded == Unwrap(query).yielded
        IN  /\ \A i \in DOMAIN yielded :
                  LET entity == yielded[i][1]
                  IN  /\ entity \in DOMAIN simple_world.data
                      /\ \A k \in DOMAIN Q :
                            /\ Q[k].kind = "Maybe" =>
                                  yielded[i][k] =
                                      IF Q[k].Q.T \in DOMAIN simple_world.data[entity].static
                                      THEN Some(simple_world.data[entity].static[Q[k].Q.T])
                                      ELSE None
                            /\ Q[k].kind = "Unsatisfied" =>
                                  /\ Q[k].Q.T \notin DOMAIN simple_world.data[entity].static
                                  /\ yielded[i][k] = <<>>
                            /\ Q[k].kind = "Ref" =>
                                  /\ Q[k].T \in DOMAIN simple_world.data[entity].static
                                  /\ yielded[i][k] = simple_world.data[entity].static[Q[k].T]
            /\ \A i, j \in DOMAIN yielded : yielded[i][1] = yielded[j][1] => i = j
            /\ Unwrap(query).done =>
                  \A entity \in DOMAIN simple_world.data :
                      (\A k \in DOMAIN Q :
                          /\ Q[k].kind = "Ref" =>
                                Q[k].T \in DOMAIN simple_world.data[entity].static
                          /\ Q[k].kind = "Unsatisfied" =>
                                Q[k].Q.T \notin DOMAIN simple_world.data[entity].static)
                      => \E i \in DOMAIN yielded : yielded[i][1] = entity

\* a finished query of (Entity, Maybe<&u32>, &u64) has handed out two rows,
\* one with Some(value) and one with None
MaybeUnsatisfiedWitness ==
    /\ query # None
    /\ Unwrap(query).kind = "QueryIter"
    /\ Unwrap(query).done
    /\ Unwrap(query).Q = <<EntityTerm, Maybe(Ref("u32")), Ref("u64")>>
    /\ Len(Unwrap(query).yielded) = 2
    /\ \E i, j \in DOMAIN Unwrap(query).yielded :
          /\ Unwrap(query).yielded[i][2] = None
          /\ IsSome(Unwrap(query).yielded[j][2])

\* the terms of a shape that every row must satisfy
mandatory(Q) == {k \in DOMAIN Q : Q[k].kind \in {"Entity", "Ref", "RefMut"}}

\* a composed shape with a Maybe or an Unsatisfied term next to a mandatory
\* term
composed_with_optional(Q) ==
    /\ mandatory(Q) # {}
    /\ \E k \in DOMAIN Q : Q[k].kind \in {"Maybe", "Unsatisfied"}

\* the archetype has the column of every mandatory borrow of the shape
matches_mandatory(w, Q, archetype) ==
    \A k \in mandatory(Q) :
        Q[k].kind = "Entity" \/
            /\ Q[k].T \in DOMAIN w.ecs_type_ids
            /\ w.ecs_type_ids[Q[k].T] \in DOMAIN archetype.column_indices

\* the archetype has the column of no Unsatisfied<T> term of the shape
lacks_unsatisfied(w, Q, archetype) ==
    \A k \in DOMAIN Q :
        Q[k].kind = "Unsatisfied" =>
            \/ Q[k].Q.T \notin DOMAIN w.ecs_type_ids
            \/ w.ecs_type_ids[Q[k].Q.T] \notin DOMAIN archetype.column_indices

\* the entities of a set of archetypes
entities_in(w, as) ==
    UNION {{w.archetypes[a].entities[i] : i \in DOMAIN w.archetypes[a].entities} : a \in as}

\* C12 as stated: a finished composed query with a Maybe or an Unsatisfied
\* term has handed out as many rows as there are entities in the archetypes
\* that match its mandatory terms
RowCountParity ==
    (query # None /\ Unwrap(query).done /\ composed_with_optional(Unwrap(query).Q)) =>
        LET Q == Unwrap(query).Q
        IN  Len(Unwrap(query).yielded) =
                Cardinality(entities_in(world,
                    {a \in DOMAIN world.archetypes :
                        matches_mandatory(world, Q, world.archetypes[a])}))

\* C12 amended: the rows are as many as the entities in the archetypes that
\* match the mandatory terms and hold no T of an Unsatisfied<T> term; a
\* Maybe<T> term leaves the number as it is
RowCountParityAmended ==
    (query # None /\ Unwrap(query).done /\ composed_with_optional(Unwrap(query).Q)) =>
        LET Q == Unwrap(query).Q
        IN  Len(Unwrap(query).yielded) =
                Cardinality(entities_in(world,
                    {a \in DOMAIN world.archetypes :
                        /\ matches_mandatory(world, Q, world.archetypes[a])
                        /\ lacks_unsatisfied(world, Q, world.archetypes[a])}))

\* a finished join of (WithEntities, Unsatisfied(&u32), &u64) has handed out
\* one row while two live entities have a u64, one of them next to a u32
RowCountParityAmendedWitness ==
    /\ query # None
    /\ Unwrap(query).done
    /\ Unwrap(query).Q = <<EntityTerm, Unsatisfied(Ref("u32")), Ref("u64")>>
    /\ Len(Unwrap(query).yielded) = 1
    /\ Cardinality({entity \in DOMAIN simple_world.data :
                       "u64" \in DOMAIN simple_world.data[entity].static}) = 2

\* ------------------------------------------------------------------ borrow rules
\* the locks that the queries that are alive hold
RECURSIVE live_locks(_)
live_locks(qs) ==
    IF qs = <<>> THEN <<>>
    ELSE (IF IsSome(Head(qs).locks) THEN Unwrap(Head(qs).locks) ELSE <<>>)
         \o live_locks(Tail(qs))

\* the number of live mutable and of live immutable borrows of a family
writers(locks, id) == Cardinality({k \in DOMAIN locks : locks[k].id = id /\ locks[k].mut})
readers(locks, id) == Cardinality({k \in DOMAIN locks : locks[k].id = id /\ ~locks[k].mut})

\* what one term asks for: None where the call ends without locks, because
\* a required component type is not registered, else the borrows it needs
RECURSIVE asks_of_term(_, _)
asks_of_term(w, term) ==
    IF term.kind = "Entity" THEN Some(<<>>)
    ELSE IF term.kind = "Maybe"
    THEN Some(IF IsSome(asks_of_term(w, term.Q)) THEN Unwrap(asks_of_term(w, term.Q)) ELSE <<>>)
    ELSE IF term.T \notin DOMAIN w.ecs_type_ids THEN None
    ELSE Some(<<Lock(w.ecs_type_ids[term.T], term.kind = "RefMut")>>)

\* the borrows that the terms of Q ask for, up to the first term of a
\* type that is not registered
RECURSIVE asks(_, _)
asks(w, Q) ==
    IF Q = <<>> \/ asks_of_term(w, Head(Q)) = None THEN <<>>
    ELSE Unwrap(asks_of_term(w, Head(Q))) \o asks(w, Tail(Q))

\* a call of World::query on Q would break the rule: one of its borrows
\* is a write of a family that is borrowed, by a live query or by an
\* earlier term, or a read of a family that is borrowed for writing
would_violate(w, live, Q) ==
    LET a == asks(w, Q)
    IN  \E k \in DOMAIN a :
            IF a[k].mut
            THEN \/ writers(live, a[k].id) + readers(live, a[k].id) > 0
                 \/ \E j \in 1..(k - 1) : a[j].id = a[k].id
            ELSE \/ writers(live, a[k].id) > 0
                 \/ \E j \in 1..(k - 1) : a[j].id = a[k].id /\ a[j].mut

\* one writer and no reader, or readers alone, on every column family
OneWriterOrReaders ==
    \A id \in DOMAIN world.columns :
        \/ writers(live_locks(queries), id) = 1 /\ readers(live_locks(queries), id) = 0
        \/ writers(live_locks(queries), id) = 0

\* the call of World::query that would break the rule is the call that
\* answers Err
ErrOnViolation ==
    \A Q \in BorrowShapes :
        World_query(world, borrow_flag, Q).err = would_violate(world, live_locks(queries), Q)

\* the call that answered Err was one that would have broken the rule; it
\* did not abort and it left no Query that could yield rows
ErrLeavesNoQuery ==
    (result' # None /\ Unwrap(result').err)
        => /\ would_violate(world, live_locks(queries), Unwrap(result').Q)
           /\ panicked' = panicked
           /\ queries' = queries

\* C13: at every moment every column family has at most one mutable borrow
\* and no immutable one, or immutable borrows alone; a World::query call
\* that would break this, by a write of a borrowed column or a read of a
\* write-borrowed column, two terms of one tuple included, returns
\* Err(WorldBorrowError) at acquisition, does not abort and yields no rows
BorrowRules ==
    /\ [](OneWriterOrReaders /\ ErrOnViolation)
    /\ [][ErrLeavesNoQuery]_vars

\* &mut u32 has just been refused while a query of &u32 is alive, and a
\* tuple of &u32 and &mut u32 would be refused as well
BorrowRulesWitness ==
    /\ Len(queries) = 1
    /\ queries[1].Q = <<Ref("u32")>>
    /\ IsSome(queries[1].locks)
    /\ result = Some([Q |-> <<RefMut("u32")>>, err |-> TRUE])
    /\ ~panicked
    /\ World_query(world, borrow_flag, <<Ref("u32"), RefMut("u32")>>).err
    /\ ~World_query(world, borrow_flag, <<Ref("u32")>>).err

\* C14: a World::query call on a tuple that fails with WorldBorrowError
\* leaves the borrow flag of every column as it was before the call, the
\* borrows of the earlier terms being released, and every query that would
\* have succeeded before the call still succeeds after it
ErrReleasesLocks ==
    [][(result' # None /\ Unwrap(result').err)
          => /\ borrow_flag' = borrow_flag
             /\ \A Q \in BorrowShapes :
                   ~World_query(world, borrow_flag, Q).err
                      => ~World_query(world', borrow_flag', Q).err]_vars

\* the tuple of &u64 and &mut u32 has just been refused for its second
\* term while a query of &u32 is alive: u64 is registered, its borrow was
\* acquired and is released again, and &u64 can still be queried
ErrReleasesLocksWitness ==
    /\ result = Some([Q |-> <<Ref("u64"), RefMut("u32")>>, err |-> TRUE])
    /\ Len(queries) = 1
    /\ queries[1].Q = <<Ref("u32")>>
    /\ "u64" \in DOMAIN world.ecs_type_ids
    /\ "u32" \in DOMAIN world.ecs_type_ids
    /\ Len(lock_terms(world, borrow_flag, <<Ref("u64"), RefMut("u32")>>, 1, <<>>).held) = 1
    /\ borrow_of(borrow_flag, world.ecs_type_ids["u64"]) = 0
    /\ borrow_of(borrow_flag, world.ecs_type_ids["u32"]) = 1
    /\ IsSome(World_query(world, borrow_flag, <<Ref("u64")>>).lock)

\* ------------------------------------------------------------------ unregistered types
\* the component types that the shape requires, and the positions of its
\* Maybe terms of a type that is not registered
required_types(Q) == {Q[k].T : k \in {j \in mandatory(Q) : Q[j].kind # "Entity"}}

requires_unregistered(w, Q) == \E T \in required_types(Q) : T \notin DOMAIN w.ecs_type_ids

maybe_unregistered(w, Q) ==
    {k \in DOMAIN Q : Q[k].kind = "Maybe" /\ Q[k].Q.T \notin DOMAIN w.ecs_type_ids}

\* the rows of a full iteration of the Query that World::query has answered
rows_of_query(w, Q, r) == drain(w, QueryIter_new(Q, r.lock), <<>>)

\* the call answers Ok, keeps no borrow and its Query yields no row
EmptyQuery(w, flags, Q) ==
    LET r == World_query(w, flags, Q)
    IN  /\ ~r.err
        /\ r.lock = None
        /\ r.flags = flags
        /\ rows_of_query(w, Q, r) = <<>>

\* the call answers Ok and its Query yields one row for every entity that
\* the mandatory terms match, with None for the Maybe terms of a type that
\* is not registered
NoneForEveryEntity(w, flags, Q) ==
    LET r == World_query(w, flags, Q)
        rows == rows_of_query(w, Q, r)
    IN  /\ ~r.err
        /\ Len(rows) = Cardinality(entities_in(w,
                           {a \in DOMAIN w.archetypes : matches_mandatory(w, Q, w.archetypes[a])}))
        /\ \A i \in DOMAIN rows : \A k \in maybe_unregistered(w, Q) : rows[i][k] = None

\* C15 as stated: a World::query whose shape requires a type that was
\* never registered returns Ok, holds no borrow and yields zero rows; a
\* Maybe term of such a type is no error and yields None once for every
\* entity that the other terms match
UnregisteredIsEmpty ==
    \A Q \in BorrowShapes \cup QueryShapes :
        /\ requires_unregistered(world, Q) => EmptyQuery(world, borrow_flag, Q)
        /\ (/\ maybe_unregistered(world, Q) # {}
            /\ ~requires_unregistered(world, Q)
            /\ ~would_violate(world, live_locks(queries), Q))
              => NoneForEveryEntity(world, borrow_flag, Q)

\* C15 amended: the same, for the calls in which no term in front of the
\* first term of an unregistered type asks for a borrow that conflicts
\* with a live one; such a call returns Err
UnregisteredIsEmptyAmended ==
    \A Q \in BorrowShapes \cup QueryShapes :
        /\ requires_unregistered(world, Q) =>
              IF would_violate(world, live_locks(queries), Q)
              THEN World_query(world, borrow_flag, Q).err
              ELSE EmptyQuery(world, borrow_flag, Q)
        /\ (/\ maybe_unregistered(world, Q) # {}
            /\ ~requires_unregistered(world, Q)
            /\ ~would_violate(world, live_locks(queries), Q))
              => NoneForEveryEntity(world, borrow_flag, Q)

\* u32 was never registered, two entities are alive and one of them holds
\* a u64: the query of &u64 and &mut u32 was answered with Ok and without
\* locks, although its first term had got its borrow, and the query of
\* Maybe<&u32> yields None twice
UnregisteredIsEmptyAmendedWitness ==
    /\ "u32" \notin DOMAIN world.ecs_type_ids
    /\ "u64" \in DOMAIN world.ecs_type_ids
    /\ Cardinality(DOMAIN simple_world.data) = 2
    /\ Len(queries) = 2
    /\ queries[1] = [Q |-> <<Ref("u64"), RefMut("u32")>>, locks |-> None]
    /\ queries[2] = [Q |-> <<Maybe(Ref("u32"))>>, locks |-> Some(<<>>)]
    /\ result = Some([Q |-> <<Maybe(Ref("u32"))>>, err |-> FALSE])
    /\ borrow_flag = <<>>
    /\ Len(lock_terms(world, borrow_flag, <<Ref("u64"), RefMut("u32")>>, 1, <<>>).held) = 1
    /\ drain(world, QueryIter_new(queries[1].Q, queries[1].locks), <<>>) = <<>>
    /\ drain(world, QueryIter_new(queries[2].Q, queries[2].locks), <<>>) = <<<<None>>, <<None>>>>

\* ------------------------------------------------------------------ access sets
\* Result<Access, ()>: Ok of the read set and the write set, or Err(());
\* a TypeId is the name of the component type
AccessOk(read, write) == [err |-> FALSE, read |-> read, write |-> write]
AccessErr == [err |-> TRUE, read |-> {}, write |-> {}]

Access_new == AccessOk({}, {})

insert_write(self, id) ==
    IF id \in self.write \/ id \in self.read THEN AccessErr
    ELSE AccessOk(self.read, self.write \cup {id})

insert_read(self, id) ==
    IF id \in self.write THEN AccessErr
    ELSE AccessOk(self.read \cup {id}, self.write)

\* a join_with that does not compare the two write sets
join_with_unchecked_writes(self, other) ==
    IF other.err THEN AccessErr
    ELSE LET read == self.read \cup other.read
             write == self.write \cup other.write
         IN  IF read \cap write # {} THEN AccessErr
             ELSE AccessOk(read, write)

\* Access::join_with: the reads are merged, the write sets have to be
\* disjoint, the writes are merged, and the merged sets have to be disjoint
join_with(self, other) ==
    IF other.err THEN AccessErr
    ELSE LET read == self.read \cup other.read
         IN  IF self.write \cap other.write # {} THEN AccessErr
             ELSE LET write == self.write \cup other.write
                  IN  IF read \cap write # {} THEN AccessErr
                      ELSE AccessOk(read, write)

\* the loop of from_array from the k-th access on, output being the join
\* of the accesses before it; the first Err ends the loop
RECURSIVE from_array_loop(_, _, _)
from_array_loop(accesses, k, output) ==
    IF k > Len(accesses) THEN output
    ELSE LET joined == join_with(output, accesses[k])
         IN  IF joined.err THEN AccessErr
             ELSE from_array_loop(accesses, k + 1, joined)

from_array(accesses) == from_array_loop(accesses, 1, Access_new)

\* the length of the lists that from_array is given
MaxParams == 3

\* the accesses that the parameters hand in: every access that
\* insert_read and insert_write build over the component types, and Err
SetAccesses ==
    {AccessOk(read, write) : read \in SUBSET StaticTypes, write \in SUBSET StaticTypes}

ParamAccesses == {a \in SetAccesses : a.read \cap a.write = {}} \cup {AccessErr}

AccessLists == UNION {[1..n -> ParamAccesses] : n \in 0..MaxParams}

\* the one call of Access::from_array of a behaviour; the caller keeps the
\* list and the answer
FromArray(accesses) ==
    /\ ~panicked
    /\ query = None
    /\ queries = <<>>
    /\ result = None
    /\ result' = Some([accesses |-> accesses, output |-> from_array(accesses)])
    /\ UNCHANGED <<world, simple_world, panicked, query, borrow_flag, queries, function_system, erased_column, heap>>

NextAccess == \E accesses \in AccessLists : FromArray(accesses)

SpecAccess == Init /\ [][NextAccess]_vars

\* the list with its members at i and j swapped
swapped(accesses, i, j) ==
    [k \in DOMAIN accesses |->
        IF k = i THEN accesses[j] ELSE IF k = j THEN accesses[i] ELSE accesses[k]]

\* a type id occurs in two of the write sets, or in a write set and in a
\* read set
sets_conflict(accesses) ==
    \/ \E i, j \in DOMAIN accesses : i # j /\ accesses[i].write \cap accesses[j].write # {}
    \/ \E i, j \in DOMAIN accesses : accesses[i].write \cap accesses[j].read # {}

\* C17: Access::from_array returns Ok exactly when no type id occurs in two
\* of the write sets and none occurs in a write set and in a read set, and
\* Err otherwise; a type id that occurs in read sets alone never causes
\* Err; the outcome does not depend on the order of the list
FromArrayRule ==
    result # None =>
        LET accesses == Unwrap(result).accesses
            output == Unwrap(result).output
        IN  /\ (\E k \in DOMAIN accesses : accesses[k].err) => output.err
            /\ (\A k \in DOMAIN accesses : ~accesses[k].err) =>
                  /\ output.err = sets_conflict(accesses)
                  /\ (\A k \in DOMAIN accesses : accesses[k].write = {}) => ~output.err
                  /\ ~output.err =>
                        /\ output.read = UNION {accesses[k].read : k \in DOMAIN accesses}
                        /\ output.write = UNION {accesses[k].write : k \in DOMAIN accesses}
            /\ \A i, j \in DOMAIN accesses : from_array(swapped(accesses, i, j)) = output

\* three accesses were joined: two that read u32 and one that writes u64
\* give Ok, and the same list with a second write of u64 in the place of
\* the first read gives Err in every order
FromArrayRuleWitness ==
    /\ result # None
    /\ Unwrap(result).accesses =
          <<AccessOk({"u32"}, {}), AccessOk({"u32"}, {}), AccessOk({}, {"u64"})>>
    /\ Unwrap(result).output = AccessOk({"u32"}, {"u64"})
    /\ from_array(<<AccessOk({}, {"u64"}), AccessOk({"u32"}, {}), AccessOk({}, {"u64"})>>).err
    /\ from_array(<<AccessOk({"u32"}, {}), AccessOk({}, {"u64"}), AccessOk({}, {"u64"})>>).err

\* ------------------------------------------------------------------ systems
\* a get_access that takes an optional term for one without access
get_access_maybe_empty(term) ==
    IF term.kind = "Ref" THEN insert_read(Access_new, term.T)
    ELSE IF term.kind = "RefMut" THEN insert_write(Access_new, term.T)
    ELSE Access_new

\* QueryParam::get_access of one term and of a tuple
RECURSIVE get_access(_)
get_access(term) ==
    IF term.kind = "Entity" THEN Access_new
    ELSE IF term.kind = "Ref" THEN insert_read(Access_new, term.T)
    ELSE IF term.kind = "RefMut" THEN insert_write(Access_new, term.T)
    ELSE get_access(term.Q)

tuple_get_access(Q) == from_array([k \in DOMAIN Q |-> get_access(Q[k])])

\* a system is the list of its parameters, each a Query of a shape;
\* System::get_access joins the accesses of the parameters
System_get_access(system) ==
    from_array([k \in DOMAIN system |-> tuple_get_access(system[k])])

\* ToSystem::system: the function is boxed with the new_state of every
\* parameter
ToSystem_system(func) == func

\* the arguments of the call in System::run, from the k-th parameter on:
\* from_world(world, state).unwrap() of one parameter after the other
RECURSIVE fetch_params(_, _, _, _)
fetch_params(w, flags, system, k) ==
    IF k > Len(system) THEN [panic |-> FALSE, fetched |-> Len(system)]
    ELSE LET r == World_query(w, flags, system[k])
         IN  IF r.err THEN [panic |-> TRUE, fetched |-> k - 1]
             ELSE fetch_params(w, r.flags, system, k + 1)

\* System::run: the parameters are fetched, the function runs and drops
\* them, and system_finish_event of a Query does nothing
System_run(system, w, flags) == fetch_params(w, flags, system, 1)

\* World::access_scope
access_scope(w, flags, func) == System_run(ToSystem_system(func), w, flags)

\* the shapes of the Query parameters, and the systems that are run
ParamShapes ==
    {<<RefMut("u32")>>, <<Ref("u32")>>, <<RefMut("u64")>>, <<EntityTerm, RefMut("u32")>>}

Systems == UNION {[1..n -> ParamShapes] : n \in 1..2}

\* world.access_scope(func); the caller learns how many parameters were
\* fetched and whether the call aborted
AccessScope(func) ==
    /\ ~panicked
    /\ query = None
    /\ queries = <<>>
    /\ LET r == access_scope(world, borrow_flag, func)
       IN  /\ result' = Some([system |-> func, fetched |-> r.fetched, panic |-> r.panic])
           /\ panicked' = r.panic
    /\ UNCHANGED <<world, simple_world, query, borrow_flag, queries, function_system, erased_column, heap>>

NextSystem ==
    \/ Spawn
    \/ \E entity \in IssuedEntities, type_id \in StaticTypes, component \in Values :
          Insert(entity, type_id, component)
    \/ \E func \in Systems : AccessScope(func)

SpecSystem == Init /\ [][NextSystem]_vars

\* two parameters of the system write the same component type
two_writers(system) ==
    \E i, j \in DOMAIN system :
        /\ i # j
        /\ tuple_get_access(system[i]).write \cap tuple_get_access(system[j]).write # {}

\* C16: a system with two queries that write the same component type is
\* rejected when it is assembled, before any parameter is fetched from the
\* World, whether or not an entity or a column of that type exists
ConflictRejectedAtComposition ==
    (result # None /\ two_writers(Unwrap(result).system)) =>
        /\ Unwrap(result).panic
        /\ Unwrap(result).fetched = 0

\* ------------------------------------------------------------------ dead entities
\* the operation answered None without an abort, the archetype table, the
\* entity lists and the liveness of every entity are the same, every
\* column is the same, and a column family that registering the component
\* type has created holds no cell
LeftAlone(w, r) ==
    /\ r.ret = None
    /\ ~r.panic
    /\ r.w.archetypes = w.archetypes
    /\ r.w.entities = w.entities
    /\ \A id \in DOMAIN w.columns : r.w.columns[id] = w.columns[id]
    /\ \A id \in DOMAIN r.w.columns \ DOMAIN w.columns :
          \A c \in DOMAIN r.w.columns[id] : VecLen(r.w.columns[id][c]) = 0

\* C20: insert_component, remove_component, insert_component_dynamic and
\* remove_component_dynamic with a despawned entity return None without
\* an abort, create no archetype and leave every entity list, every column
\* and the liveness of every entity as they were
DeadEntityOps ==
    \A entity \in Despawned(world) :
        /\ \A T \in StaticTypes :
              /\ \A component \in Values :
                    LeftAlone(world, insert_component(world, entity, T, component))
              /\ LeftAlone(world, remove_component(world, entity, T))
        /\ \A id \in simple_world.ecs_type_ids :
              /\ \A component \in Values :
                    LeftAlone(world, insert_component_dynamic(world, entity, id, component))
              /\ LeftAlone(world, remove_component_dynamic(world, entity, id))

\* an entity is dead, a live entity holds a dynamic component, and u32 is
\* registered although no archetype has a column of it: it was only ever
\* inserted on a dead entity
DeadEntityOpsWitness ==
    /\ Despawned(world) # {}
    /\ "u32" \in DOMAIN world.ecs_type_ids
    /\ \A a \in DOMAIN world.archetypes :
          world.ecs_type_ids["u32"] \notin DOMAIN world.archetypes[a].column_indices
    /\ \E a \in DOMAIN world.archetypes :
          /\ VecLen(world.archetypes[a].entities) > 0
          /\ \E id \in simple_world.ecs_type_ids :
                id \in DOMAIN world.archetypes[a].column_indices

\* ------------------------------------------------------------------ tables
\* the WorldId of the World of the model and the WorldId of another World
World_id == 0
OtherWorldId == 1

\* Table<T>: the EcsTypeId of its column family and the WorldId of the
\* World that created it
Table(ecs_type_id, world_id) == [ecs_type_id |-> ecs_type_id, world_id |-> world_id]

\* World::assert_alive: the abort for an entity that is not alive
assert_alive(w, entity) ==
    IF is_alive(w, entity) THEN None ELSE Some("Unexpected dead entity")

\* crate::assert_world_id: the abort for two WorldIds that differ
assert_world_id(world_id, self_world_id) ==
    IF world_id = self_world_id THEN None ELSE Some("[Mismatched WorldIds]")

\* the abort of the first check that fails
RECURSIVE first_abort(_)
first_abort(checks) ==
    IF checks = <<>> THEN None
    ELSE IF IsSome(Head(checks)) THEN Head(checks)
    ELSE first_abort(Tail(checks))

\* a head of the ColumnsApi operations that asserts the WorldId alone
ColumnsApi_asserts_world_id_only(self, w, entity) ==
    assert_world_id(World_id, self.world_id)

\* the two assertions at the head of every ColumnsApi operation
ColumnsApi_asserts(self, w, entity) ==
    first_abort(<<assert_alive(w, entity), assert_world_id(World_id, self.world_id)>>)

Aborted(abort, w) == [abort |-> abort, w |-> w, ret |-> None]

\* the outcome of the World operation behind a table operation; its unwrap
\* aborts where the operation panics
Unwrapped(r, w) ==
    IF r.panic THEN Aborted(Some("[unwrap]"), w)
    ELSE [abort |-> None, w |-> r.w, ret |-> r.ret]

ColumnsApi_get_component(self, w, entity) ==
    IF IsSome(ColumnsApi_asserts(self, w, entity))
    THEN Aborted(ColumnsApi_asserts(self, w, entity), w)
    ELSE [abort |-> None, w |-> w, ret |-> get_component_dynamic(w, entity, self.ecs_type_id)]

ColumnsApi_get_component_mut(self, w, entity) ==
    IF IsSome(ColumnsApi_asserts(self, w, entity))
    THEN Aborted(ColumnsApi_asserts(self, w, entity), w)
    ELSE [abort |-> None, w |-> w, ret |-> get_component_dynamic(w, entity, self.ecs_type_id)]

ColumnsApi_has_component(self, w, entity) ==
    IF IsSome(ColumnsApi_asserts(self, w, entity))
    THEN Aborted(ColumnsApi_asserts(self, w, entity), w)
    ELSE [abort |-> None, w |-> w, ret |-> has_component_dynamic(w, entity, self.ecs_type_id)]

ColumnsApi_insert_component(self, w, entity, data) ==
    IF IsSome(ColumnsApi_asserts(self, w, entity))
    THEN Aborted(ColumnsApi_asserts(self, w, entity), w)
    ELSE Unwrapped(insert_component_dynamic(w, entity, self.ecs_type_id, data), w)

ColumnsApi_remove_component(self, w, entity) ==
    IF IsSome(ColumnsApi_asserts(self, w, entity))
    THEN Aborted(ColumnsApi_asserts(self, w, entity), w)
    ELSE Unwrapped(remove_component_dynamic(w, entity, self.ecs_type_id), w)

\* the Joinable term of a shared borrow of a Table
TableRef(table) == [kind |-> "Table", table |-> table]

\* Joinable::assert_world_id of one term and of a tuple
RECURSIVE Joinable_assert_world_id(_, _)
Joinable_assert_world_id(term, world_id) ==
    IF term.kind = "WithEntities" THEN None
    ELSE IF term.kind \in {"Maybe", "Unsatisfied"}
    THEN Joinable_assert_world_id(term.Q, world_id)
    ELSE assert_world_id(world_id, term.table.world_id)

tuple_assert_world_id(C, world_id) ==
    first_abort([k \in DOMAIN C |-> Joinable_assert_world_id(C[k], world_id)])

\* ColumnLocks::new: the WorldIds are asserted, then the ids and the locks
\* are made
ColumnLocks_new(C, w) == Aborted(tuple_assert_world_id(C, World_id), w)

\* the tables of this World, one for each dynamic column family, and a
\* table of the other World
LocalTables == {Table(id, World_id) : id \in simple_world.ecs_type_ids}
OtherTables == {Table(new_dynamic_ecs_type_id(World_new, 4).ret, OtherWorldId)}

TableOps == {"get_component", "get_component_mut", "has_component",
             "insert_component", "remove_component"}

TableJoins(table) ==
    {<<TableRef(table)>>,
     <<Maybe(TableRef(table))>>,
     <<Unsatisfied(TableRef(table))>>,
     <<WithEntities, TableRef(table)>>}

ColumnsApi_call(op, self, w, entity, data) ==
    IF op = "get_component" THEN ColumnsApi_get_component(self, w, entity)
    ELSE IF op = "get_component_mut" THEN ColumnsApi_get_component_mut(self, w, entity)
    ELSE IF op = "has_component" THEN ColumnsApi_has_component(self, w, entity)
    ELSE IF op = "insert_component" THEN ColumnsApi_insert_component(self, w, entity, data)
    ELSE ColumnsApi_remove_component(self, w, entity)

\* the reference model after the call
apply_TableOp(sw, op, self, entity, data) ==
    IF op = "insert_component" THEN apply_InsertDyn(sw, entity, self.ecs_type_id, data)
    ELSE IF op = "remove_component" THEN apply_RemoveDyn(sw, entity, self.ecs_type_id)
    ELSE sw

\* the caller learns which operation ran, whether the table was another
\* World's, and the abort
TableOutcome(op, self, r) ==
    Some([op |-> op, other_world |-> self.world_id # World_id, abort |-> r.abort])

\* a call on a table ends with the outcome r, the reference model sw and
\* the outcome the caller learns
TableStep(r, sw, outcome) ==
    /\ ~panicked
    /\ query = None
    /\ queries = <<>>
    /\ WithinBounds(r.w)
    /\ result' = outcome
    /\ panicked' = IsSome(r.abort)
    /\ world' = r.w
    /\ simple_world' = IF IsSome(r.abort) THEN simple_world ELSE sw
    /\ UNCHANGED <<query, borrow_flag, queries, function_system, erased_column, heap>>

\* an operation of a table on this World
TableCall(op, self, entity, data) ==
    TableStep(ColumnsApi_call(op, self, world, entity, data),
              apply_TableOp(simple_world, op, self, entity, data),
              TableOutcome(op, self, ColumnsApi_call(op, self, world, entity, data)))

\* world.join(C) over a table
TableJoin(C, self) ==
    TableStep(ColumnLocks_new(C, world), simple_world,
              TableOutcome("join", self, ColumnLocks_new(C, world)))

NextTable ==
    \/ \E layout_size \in LayoutSizes : NewDynamicEcsTypeId(layout_size)
    \/ Spawn
    \/ \E entity \in IssuedEntities : Despawn(entity)
    \/ \E op \in TableOps, self \in LocalTables \cup OtherTables,
          entity \in IssuedEntities, data \in Values :
          TableCall(op, self, entity, data)
    \/ \E self \in LocalTables \cup OtherTables : \E C \in TableJoins(self) :
          TableJoin(C, self)

SpecTable == Init /\ [][NextTable]_vars

\* C18: every operation of a table, a join over it included, that is given
\* a World other than the one that created the table aborts with
\* [Mismatched WorldIds]: the WorldId is checked first, before the
\* liveness of the entity
MismatchedWorldAborts ==
    (result # None /\ Unwrap(result).other_world) =>
        Unwrap(result).abort = Some("[Mismatched WorldIds]")

\* ------------------------------------------------------------------ ids of another World
\* the EcsTypeId that another World hands out for its first dynamic
\* component type
OtherWorldEcsTypeId == new_dynamic_ecs_type_id(World_new, 4).ret

IdOps == {"has_component_dynamic", "get_component_dynamic",
          "insert_component_dynamic", "remove_component_dynamic"}

\* the id-based operations of World; an EcsTypeId is a bare number and the
\* operations look it up as it is
World_call_dynamic(op, w, entity, id, component) ==
    IF op = "has_component_dynamic"
    THEN [w |-> w, ret |-> has_component_dynamic(w, entity, id), panic |-> FALSE]
    ELSE IF op = "get_component_dynamic"
    THEN [w |-> w, ret |-> get_component_dynamic(w, entity, id), panic |-> FALSE]
    ELSE IF op = "insert_component_dynamic"
    THEN insert_component_dynamic(w, entity, id, component)
    ELSE remove_component_dynamic(w, entity, id)

\* the reference model treats the number as the World does
apply_IdOp(sw, op, entity, id, component) ==
    IF id \notin sw.ecs_type_ids THEN sw
    ELSE IF op = "insert_component_dynamic" THEN apply_InsertDyn(sw, entity, id, component)
    ELSE IF op = "remove_component_dynamic" THEN apply_RemoveDyn(sw, entity, id)
    ELSE sw

\* an id-based operation of this World with the EcsTypeId of another World
OtherIdStep(op, r, sw) ==
    /\ ~panicked
    /\ query = None
    /\ queries = <<>>
    /\ WithinBounds(r.w)
    /\ result' = Some([op |-> op, id |-> OtherWorldEcsTypeId,
                       answered |-> IsSome(r.ret), panic |-> r.panic])
    /\ panicked' = r.panic
    /\ world' = IF r.panic THEN world ELSE r.w
    /\ simple_world' = IF r.panic THEN simple_world ELSE sw
    /\ UNCHANGED <<query, borrow_flag, queries, function_system, erased_column, heap>>

OtherIdCall(op, entity, component) ==
    OtherIdStep(op,
                World_call_dynamic(op, world, entity, OtherWorldEcsTypeId, component),
                apply_IdOp(simple_world, op, entity, OtherWorldEcsTypeId, component))

NextOtherId ==
    \/ \E layout_size \in LayoutSizes : NewDynamicEcsTypeId(layout_size)
    \/ Spawn
    \/ \E entity \in IssuedEntities : Despawn(entity)
    \/ \E op \in IdOps, entity \in IssuedEntities, component \in Values :
          OtherIdCall(op, entity, component)

SpecOtherId == Init /\ [][NextOtherId]_vars

\* C19: an EcsTypeId of one World that is passed to an id-based operation
\* of another World is rejected with a fatal mismatch error and is never
\* taken for the component type of the same number
OtherIdRejected ==
    result # None => Unwrap(result).panic

\* ------------------------------------------------------------------ tables and dead entities
\* C21: each of the five ColumnsApi operations of a table, called with a
\* despawned entity, aborts with "Unexpected dead entity", returns no value
\* and leaves the World, its archetypes and columns included, as it was
DeadEntityAborts ==
    \A entity \in Despawned(world) :
        \A op \in TableOps, self \in LocalTables \cup OtherTables, data \in Values :
            LET r == ColumnsApi_call(op, self, world, entity, data)
            IN  /\ r.abort = Some("Unexpected dead entity")
                /\ r.ret = None
                /\ r.w = world

\* a table of this World holds a column in some archetype, an entity is
\* despawned and an insert_component of a table of this World has just
\* aborted on a dead entity
DeadEntityAbortsWitness ==
    /\ Despawned(world) # {}
    /\ LocalTables # {}
    /\ result # None
    /\ Unwrap(result).op = "insert_component"
    /\ ~Unwrap(result).other_world
    /\ Unwrap(result).abort = Some("Unexpected dead entity")
    /\ VecLen(world.archetypes) > 1

\* ------------------------------------------------------------------ reserved entities
\* the entities that reserve_entity handed out and no fix-up has reached
Reserved(w) == VecLen(w.entities.meta) .. (w.entities.len - 1)

\* the entity is alive, a member of archetype 0 and of no other archetype,
\* and has no component
Fresh(w, entity) ==
    /\ is_alive(w, entity)
    /\ Unwrap(meta(w, entity)).archetype = 0
    /\ Cardinality(occurrences(w, entity)) = 1
    /\ \A p \in occurrences(w, entity) : p[1] = 0
    /\ \A T \in StaticTypes :
          /\ has_component(w, T, entity) = Some(FALSE)
          /\ get_component(w, T, entity) = None

\* a reserved entity is not alive and is in no archetype
ReservedHidden ==
    \A entity \in Reserved(world) :
        ~is_alive(world, entity) /\ occurrences(world, entity) = {}

\* archetype 0 exists and has no columns
EmptyArchetype ==
    /\ 0 \in DOMAIN world.archetypes
    /\ world.archetypes[0].column_indices = <<>>

\* the fix-up leaves every reserved entity fresh and no entity reserved
FixUpMakesFresh ==
    /\ Reserved(fix_reserved_entities(world)) = {}
    /\ \A entity \in Reserved(world) : Fresh(fix_reserved_entities(world), entity)

\* World::spawn, World::despawn and CommandBuffer::apply start with the
\* fix-up: after the step no entity is reserved, and an entity that was
\* reserved before it is fresh unless the operation itself went on to
\* despawn it or to apply a command to it
FixUpSteps ==
    \A e \in Reserved(world) :
        /\ Spawn => Reserved(world') = {} /\ Fresh(world', e)
        /\ \A entity \in IssuedEntities :
              Despawn(entity) =>
                  /\ Reserved(world') = {}
                  /\ IF entity = e
                     THEN ~is_alive(world', e) /\ occurrences(world', e) = {}
                     ELSE Fresh(world', e)
        /\ RunFinish =>
              /\ Reserved(world') = {}
              /\ is_alive(world', e)
              /\ Cardinality(occurrences(world', e)) = 1
              /\ (\A k \in DOMAIN function_system.state :
                     function_system.state[k].entity # e) => Fresh(world', e)

\* C22: an entity handed out by reserve_entity is not alive and in no
\* archetype until the next fix-up; the fix-up, which World::spawn,
\* World::despawn and CommandBuffer::apply perform first, leaves it alive,
\* a member of archetype 0, which always exists and has no columns, and
\* without components
ReservedUntilFixUp ==
    /\ [](ReservedHidden /\ EmptyArchetype /\ FixUpMakesFresh)
    /\ [][FixUpSteps]_vars

\* a system that reserved an entity through Commands::spawn and recorded
\* a command has returned; the entity is alive and another entity, which
\* no command addressed, sits in archetype 0 next to an archetype with a
\* column
ReservedUntilFixUpWitness ==
    /\ result # None
    /\ Unwrap(result).recorded > 0
    /\ ~function_system.running
    /\ VecLen(world.archetypes) > 1
    /\ VecLen(world.archetypes[0].entities) > 0
    /\ \E a \in DOMAIN world.archetypes :
          a # 0 /\ VecLen(world.archetypes[a].entities) > 0

\* ------------------------------------------------------------------ deferred commands
\* insert_component and remove_component called on the World directly,
\* one call for each command, in the order of the list
RECURSIVE direct_calls(_, _)
direct_calls(cmds, w) ==
    IF cmds = <<>> THEN w
    ELSE direct_calls(Tail(cmds),
             IF Head(cmds).kind = "InsertCmd"
             THEN insert_component(w, Head(cmds).entity, Head(cmds).T,
                                   Head(cmds).component).w
             ELSE remove_component(w, Head(cmds).entity, Head(cmds).T).w)

\* between two runs the buffer of the system is empty
BufferEmptyBetweenRuns ==
    ~function_system.running => function_system.state = <<>>

\* while the body executes, recording changes nothing of the World but
\* the counter that Commands::spawn increments
BodyLeavesWorld ==
    (function_system.running /\ function_system'.running) =>
        /\ [world' EXCEPT !.entities.len = world.entities.len] = world
        /\ simple_world' = simple_world

\* when the body returns the World becomes what the direct calls, in the
\* order of recording, make of it, and the buffer is drained
FinishAppliesInOrder ==
    (function_system.running /\ ~function_system'.running /\ ~panicked') =>
        /\ world' = direct_calls(function_system.state, fix_reserved_entities(world))
        /\ function_system'.state = <<>>

\* C23: insert and remove commands recorded through Commands do not change
\* the World while the body of the system executes; when the body returns
\* they are applied once, in the order of recording, with the result of
\* the same direct insert_component and remove_component calls, which is
\* also what the reference model holds; the buffer is left empty, so that
\* a later run does not replay them
CommandsDeferred ==
    /\ [](BufferEmptyBetweenRuns /\ Agreement)
    /\ [][BodyLeavesWorld /\ FinishAppliesInOrder]_vars

\* a run has returned that recorded two commands, and an entity holds
\* the u32 and the u64 that commands inserted
CommandsDeferredWitness ==
    /\ result # None
    /\ Unwrap(result).recorded = 2
    /\ ~function_system.running
    /\ \E entity \in DOMAIN simple_world.data :
          /\ "u32" \in DOMAIN simple_world.data[entity].static
          /\ simple_world.data[entity].static["u32"] = 10
          /\ "u64" \in DOMAIN simple_world.data[entity].static

\* ------------------------------------------------------------------ dynamic columns
\* One column family of a dynamic EcsTypeId, byte by byte.  Its storage 0
\* is the column of the archetype that holds the dynamic type alone and
\* its storage 1 the column of the archetype that holds another type too;
\* entities[s] is Archetype::entities of that archetype.  written and
\* moved are history: the bytes that write_fn wrote for an entity, and the
\* entities whose row a swap-remove has moved; the caller of a remove or
\* of an insert over a component keeps whether the bytes handed back are
\* the bytes written
MaxRows == 2
ErasedEntities == 0..(MaxRows - 1)
UnitValues == {0, 1}
Layouts == {Layout(4, 4), Layout(2, 1), Layout(4, 2)}
\* the elements that get written: their first and last unit differ when
\* they have more than one, so that a shifted or swapped unit shows
Elements(layout) ==
    {element \in [1..(layout.size \div layout.align) -> UnitValues] :
        Len(element) = 1 \/ element[1] # element[Len(element)]}

ErasedColumn(storages, entities, written, moved) ==
    [storages |-> storages, entities |-> entities, written |-> written, moved |-> moved]

HasRow(col, entity) ==
    \E s \in DOMAIN col.entities : \E i \in DOMAIN col.entities[s] :
        col.entities[s][i] = entity

\* the archetype of the entity and Archetype::get_entity_idx
RowOf(col, entity) ==
    CHOOSE p \in {q \in (DOMAIN col.entities) \X (0..MaxRows) :
                     q[2] \in DOMAIN col.entities[q[1]]} :
        col.entities[p[1]][p[2]] = entity

\* the entity whose row a swap-remove of row idx moves, if any
MovedBy(rows, idx) ==
    IF idx < VecLen(rows) - 1 THEN {rows[VecLen(rows) - 1]} ELSE {}

\* insert_component_dynamic, the entity has no such component: the caller
\* part, after move_entity_from_insert has pushed the entity
insert_dynamic_fresh(storage, element) ==
    LET room == realloc_if_full(storage)
        ptr == get_element_ptr(room, storage.len_elements)
        longer == incr_len([room EXCEPT !.buf = write_element(@, ptr, element)])
    IN  IF get_element_ptr_panics(room, storage.len_elements) \/ longer.panic
        THEN [self |-> storage, panic |-> TRUE]
        ELSE [self |-> longer.self, panic |-> FALSE]

\* insert_component_dynamic, the entity has such a component: the old
\* bytes are handed back and write_fn writes over the element
insert_dynamic_over(storage, entity_idx, element) ==
    LET r == copy_to_insert_over_space(storage, entity_idx)
    IN  IF r.panic THEN [self |-> storage, ret |-> None, panic |-> TRUE]
        ELSE [self |-> [r.self EXCEPT
                          !.buf = write_element(@, Unwrap(r.uninit), element)],
              ret |-> r.inserted_over, panic |-> FALSE]

\* remove_component_dynamic after move_entity_from_remove: the bytes behind
\* the pointer that swap_remove hands back
remove_dynamic(storage, entity_idx) ==
    LET r == AlignedBytesVec_swap_remove(storage, entity_idx)
    IN  IF r.panic THEN [self |-> storage, ret |-> None, panic |-> TRUE]
        ELSE [self |-> r.self,
              ret |-> Some(read_element(r.self.buf, Unwrap(r.ret))),
              panic |-> FALSE]

\* get_component_dynamic and Storage::get_element_ptr, then a read of the
\* size bytes
get_dynamic(col, entity) ==
    LET p == RowOf(col, entity)
        storage == col.storages[p[1]]
    IN  IF ~HasRow(col, entity) THEN None
        ELSE Some(read_element(storage.buf, get_element_ptr(storage, p[2])))

get_dynamic_panics(col, entity) ==
    HasRow(col, entity) /\
        get_element_ptr_panics(col.storages[RowOf(col, entity)[1]], RowOf(col, entity)[2])

ErasedStep(col, ret, panic) ==
    /\ ~panicked
    /\ panicked' = panic
    /\ erased_column' = IF panic THEN erased_column ELSE Some(col)
    /\ result' = ret
    /\ UNCHANGED <<world, simple_world, query, borrow_flag, queries,
                   function_system, heap>>

\* new_dynamic_ecs_type_id(layout) and the columns of the two archetypes
NewErasedColumn(layout) ==
    /\ erased_column = None
    /\ ErasedStep(ErasedColumn(
                      [s \in 0..1 |-> IF s = 0 THEN make_aligned_vec(layout)
                                      ELSE empty_of_same_layout(make_aligned_vec(layout))],
                      [s \in 0..1 |-> <<>>], <<>>, {}),
                  None, AlignedBytesVec_new_panics(layout.align, layout.size))

\* insert_component_dynamic on an entity without the component, which is
\* in the archetype without the dynamic type that leads to storage s
InsertDynamicFresh(entity, s, element) ==
    /\ erased_column # None
    /\ LET col == Unwrap(erased_column)
       IN  /\ ~HasRow(col, entity)
           /\ Len(element) = col.storages[s].size \div col.storages[s].A
           /\ ErasedStep(ErasedColumn(
                  [col.storages EXCEPT ![s] = insert_dynamic_fresh(@, element).self],
                  [col.entities EXCEPT ![s] = push(@, entity)],
                  [e \in (DOMAIN col.written) \cup {entity} |->
                      IF e = entity THEN element ELSE col.written[e]],
                  col.moved),
                  None, insert_dynamic_fresh(col.storages[s], element).panic)

\* insert_component_dynamic on an entity that has the component
InsertDynamicOver(entity, element) ==
    /\ erased_column # None
    /\ LET col == Unwrap(erased_column)
       IN  /\ HasRow(col, entity)
           /\ Len(element) = col.storages[0].size \div col.storages[0].A
           /\ LET p == RowOf(col, entity)
                  r == insert_dynamic_over(col.storages[p[1]], p[2], element)
              IN  ErasedStep(ErasedColumn(
                      [col.storages EXCEPT ![p[1]] = r.self],
                      col.entities,
                      [col.written EXCEPT ![entity] = element],
                      col.moved),
                      IF r.panic THEN None
                      ELSE Some([op |-> "insert",
                                 same |-> Unwrap(r.ret) = col.written[entity],
                                 moved |-> entity \in col.moved]),
                      r.panic)

\* remove_component_dynamic on an entity that has the component
RemoveDynamic(entity) ==
    /\ erased_column # None
    /\ LET col == Unwrap(erased_column)
       IN  /\ HasRow(col, entity)
           /\ LET p == RowOf(col, entity)
                  r == remove_dynamic(col.storages[p[1]], p[2])
              IN  ErasedStep(ErasedColumn(
                      [col.storages EXCEPT ![p[1]] = r.self],
                      [col.entities EXCEPT ![p[1]] = swap_remove(@, p[2])],
                      [e \in (DOMAIN col.written) \ {entity} |-> col.written[e]],
                      (col.moved \ {entity}) \cup MovedBy(col.entities[p[1]], p[2])),
                      IF r.panic THEN None
                      ELSE Some([op |-> "remove",
                                 same |-> Unwrap(r.ret) = col.written[entity],
                                 moved |-> entity \in col.moved]),
                      r.panic)

\* World::despawn of an entity that has the component
DespawnDynamic(entity) ==
    /\ erased_column # None
    /\ LET col == Unwrap(erased_column)
       IN  /\ HasRow(col, entity)
           /\ LET p == RowOf(col, entity)
                  r == AlignedBytesVec_swap_remove(col.storages[p[1]], p[2])
              IN  ErasedStep(ErasedColumn(
                      [col.storages EXCEPT ![p[1]] = r.self],
                      [col.entities EXCEPT ![p[1]] = swap_remove(@, p[2])],
                      [e \in (DOMAIN col.written) \ {entity} |-> col.written[e]],
                      (col.moved \ {entity}) \cup MovedBy(col.entities[p[1]], p[2])),
                      None, r.panic)

\* the other component is inserted on or removed from an entity that has
\* the dynamic component: move_entity_from_insert and
\* move_entity_from_remove move the row to the other archetype
MoveDynamic(entity) ==
    /\ erased_column # None
    /\ LET col == Unwrap(erased_column)
       IN  /\ HasRow(col, entity)
           /\ LET p == RowOf(col, entity)
                  r == AlignedBytesVec_swap_remove_move_to(
                           col.storages[p[1]], col.storages[1 - p[1]], p[2])
              IN  ErasedStep(ErasedColumn(
                      [s \in 0..1 |-> IF s = p[1] THEN r.self ELSE r.other],
                      [s \in 0..1 |-> IF s = p[1] THEN swap_remove(col.entities[s], p[2])
                                      ELSE push(col.entities[s], entity)],
                      col.written,
                      col.moved \cup MovedBy(col.entities[p[1]], p[2])),
                      None, r.panic)

NextBytes ==
    \/ \E layout \in Layouts : NewErasedColumn(layout)
    \/ \E entity \in ErasedEntities, s \in 0..1, element \in UNION {Elements(l) : l \in Layouts} :
          InsertDynamicFresh(entity, s, element)
    \/ \E entity \in ErasedEntities, element \in UNION {Elements(l) : l \in Layouts} :
          InsertDynamicOver(entity, element)
    \/ \E entity \in ErasedEntities : RemoveDynamic(entity)
    \/ \E entity \in ErasedEntities : DespawnDynamic(entity)
    \/ \E entity \in ErasedEntities : MoveDynamic(entity)

SpecBytes == Init /\ [][NextBytes]_vars

\* C24: for a layout whose size is a non-zero multiple of its alignment,
\* get_component_dynamic reads for every entity exactly the bytes that
\* insert_component_dynamic wrote for it, remove_component_dynamic (and an
\* insert over the component) hands back exactly those bytes, no call
\* aborts, also after swap-removes have moved the entity's row.
BytesRoundTrip ==
    /\ ~panicked
    /\ erased_column # None =>
          \A entity \in ErasedEntities :
              LET col == Unwrap(erased_column)
              IN  /\ HasRow(col, entity) <=> entity \in DOMAIN col.written
                  /\ ~get_dynamic_panics(col, entity)
                  /\ HasRow(col, entity) =>
                        get_dynamic(col, entity) = Some(col.written[entity])
    /\ result # None => Unwrap(result).same

BytesRoundTripWitness ==
    /\ result # None
    /\ Unwrap(result).op = "remove"
    /\ Unwrap(result).moved
    /\ Unwrap(result).same
    /\ erased_column # None
    /\ \E entity \in ErasedEntities :
          /\ entity \in Unwrap(erased_column).moved
          /\ get_dynamic(Unwrap(erased_column), entity)
                 = Some(Unwrap(erased_column).written[entity])
          /\ Unwrap(erased_column).storages[0].size = 4
          /\ Unwrap(erased_column).storages[0].A = 2

\* ------------------------------------------------------------------ EcsTypeIds
\* the ids handed out so far: to the static types and to the dynamic ones
StaticEcsTypeIds(w) == {w.ecs_type_ids[T] : T \in DOMAIN w.ecs_type_ids}
DynamicEcsTypeIds(w) == DOMAIN w.sizes

\* no two types share an id: the static types have pairwise distinct ids,
\* no static id is a dynamic id, and every id is below the counter, so
\* that the next registration gets a new one
IdsDistinct(w) ==
    /\ \A T1, T2 \in DOMAIN w.ecs_type_ids :
          w.ecs_type_ids[T1] = w.ecs_type_ids[T2] => T1 = T2
    /\ StaticEcsTypeIds(w) \cap DynamicEcsTypeIds(w) = {}
    /\ StaticEcsTypeIds(w) \cup DynamicEcsTypeIds(w) = 0..(w.next_ecs_type_id - 1)

\* a registered static type keeps its id and nothing is allocated
RegisteredAgain(w) ==
    \A T \in DOMAIN w.ecs_type_ids :
        /\ type_to_ecs_type_id_or_create(w, T) = [w |-> w, ret |-> w.ecs_type_ids[T]]
        /\ new_static_ecs_type_id(w, T) = [w |-> w, ret |-> None]

\* a registration hands out the value of the counter, which no type has
NewIdsFresh(w) ==
    /\ \A T \in StaticTypes \ DOMAIN w.ecs_type_ids :
          LET r == type_to_ecs_type_id_or_create(w, T)
          IN  /\ r.ret = w.next_ecs_type_id
              /\ r.ret \notin StaticEcsTypeIds(w) \cup DynamicEcsTypeIds(w)
              /\ r.w.next_ecs_type_id = w.next_ecs_type_id + 1
    /\ \A layout_size \in LayoutSizes :
          LET r == new_dynamic_ecs_type_id(w, layout_size)
          IN  /\ r.ret = w.next_ecs_type_id
              /\ r.ret \notin StaticEcsTypeIds(w) \cup DynamicEcsTypeIds(w)
              /\ r.w.next_ecs_type_id = w.next_ecs_type_id + 1

EveryIdHasColumns(w) == DOMAIN w.columns = 0..(w.next_ecs_type_id - 1)

CounterIncreases ==
    /\ world'.next_ecs_type_id >= world.next_ecs_type_id
    /\ \A T \in DOMAIN world.ecs_type_ids :
          T \in DOMAIN world'.ecs_type_ids /\ world'.ecs_type_ids[T] = world.ecs_type_ids[T]
    /\ DynamicEcsTypeIds(world) \subseteq DynamicEcsTypeIds(world')

\* C25: the EcsTypeId counter of a World never decreases and a type keeps
\* its id; no two distinct component types, static or dynamic, have the
\* same id; type_to_ecs_type_id_or_create of a registered static type
\* returns its id and changes nothing; every id handed out has an entry
\* in columns.
EcsTypeIdsUnique ==
    /\ [](IdsDistinct(world) /\ RegisteredAgain(world) /\ NewIdsFresh(world)
            /\ EveryIdHasColumns(world))
    /\ [][CounterIncreases]_vars

EcsTypeIdsUniqueWitness ==
    /\ StaticEcsTypeIds(world) # {}
    /\ DynamicEcsTypeIds(world) # {}
    /\ world.next_ecs_type_id = 2
    /\ \E T \in DOMAIN world.ecs_type_ids :
          type_to_ecs_type_id_or_create(world, T).ret = world.ecs_type_ids[T]

\* ------------------------------------------------------------------ rows
MaxSwapLen == 4

\* what a swap-remove of row i leaves of the rows (or cells) v: one row
\* fewer, the last row at i, every other row where it was
SwapRemoved(v, i, after) ==
    /\ VecLen(after) = VecLen(v) - 1
    /\ \A j \in DOMAIN after : after[j] = (IF j = i THEN v[VecLen(v) - 1] ELSE v[j])

\* the storage operations on every column of up to MaxSwapLen cells
SwapRemoveRows ==
    \A n \in 1..MaxSwapLen : \A v \in [0..(n - 1) -> Values] : \A i \in 0..(n - 1) :
        /\ SwapRemoved(v, i, swap_remove(v, i))
        /\ SwapRemoved(v, i, swap_remove_and_drop(push(<<>>, v), 0, i)[0])
        /\ \A other \in {<<>>, push(<<>>, 10)} :
              LET storages == swap_remove_move_to(push(push(<<>>, v), other), 0, 1, i)
              IN  /\ SwapRemoved(v, i, storages[0])
                  /\ storages[1] = push(other, v[i])

\* a step of the World in which the entity at row i leaves archetype a
LeavesArchetype(a, i) ==
    /\ a \in DOMAIN world'.archetypes
    /\ \A j \in DOMAIN world'.archetypes[a].entities :
          world'.archetypes[a].entities[j] # world.archetypes[a].entities[i]

RowsAfterLeave ==
    \A a \in DOMAIN world.archetypes : \A i \in DOMAIN world.archetypes[a].entities :
        LeavesArchetype(a, i) =>
            /\ SwapRemoved(world.archetypes[a].entities, i, world'.archetypes[a].entities)
            /\ world'.archetypes[a].column_indices = world.archetypes[a].column_indices
            /\ \A id \in DOMAIN world.archetypes[a].column_indices :
                  SwapRemoved(world.columns[id][world.archetypes[a].column_indices[id]], i,
                              world'.columns[id][world.archetypes[a].column_indices[id]])

\* C26: when the entity at row i of an archetype with n rows leaves the
\* archetype by an insert, a remove or a despawn, the archetype has n-1
\* rows afterwards, the entity of row n-1 and all its cells are at row i
\* (for i < n-1), and every other row keeps its entity and its cells.
SwapRemoveSemantics == []SwapRemoveRows /\ [][RowsAfterLeave]_vars

\* an archetype with a column and two rows, where the despawn, the remove
\* or the insert of the entity of row 0 puts row 1 with its cell at row 0
SwapRemoveSemanticsWitness ==
    \E a \in DOMAIN world.archetypes, id \in DOMAIN world.columns, T \in StaticTypes :
        LET rows == world.archetypes[a].entities
            after == World_despawn(world, rows[0]).w
            removed == remove_component(world, rows[0], T).w
            inserted == insert_component(world, rows[0], T, 10).w
        IN  /\ VecLen(rows) = 2
            /\ id \in DOMAIN world.archetypes[a].column_indices
            /\ world.columns[id][world.archetypes[a].column_indices[id]][0]
                   # world.columns[id][world.archetypes[a].column_indices[id]][1]
            /\ after.archetypes[a].entities = push(<<>>, rows[1])
            /\ after.columns[id][world.archetypes[a].column_indices[id]]
                   = push(<<>>, world.columns[id][world.archetypes[a].column_indices[id]][1])
            /\ \/ /\ removed.archetypes[a].entities = push(<<>>, rows[1])
                  /\ removed.columns[id][world.archetypes[a].column_indices[id]]
                       = push(<<>>, world.columns[id][world.archetypes[a].column_indices[id]][1])
               \/ /\ inserted.archetypes[a].entities = push(<<>>, rows[1])
                  /\ inserted.columns[id][world.archetypes[a].column_indices[id]]
                       = push(<<>>, world.columns[id][world.archetypes[a].column_indices[id]][1])

\* ------------------------------------------------------------------ despawn
\* the ids that were handed out and one that never was
EntityIds == 0..MaxEntities

\* the entity is no row of any archetype
InNoArchetype(w, entity) ==
    \A a \in DOMAIN w.archetypes : get_entity_idx(w.archetypes[a], entity) = None

\* despawn of an entity that is dead or was never allocated: no call of
\* the callback, and nothing but the fix-up of the reserved entities
DespawnDeadIsNoOp(w, entity) ==
    LET fixed == fix_reserved_entities(w)
        r == NoReservedEntities_despawn(fixed, entity)
    IN  ~is_alive(fixed, entity) =>
            /\ r = [w |-> fixed, calls |-> <<>>, panic |-> FALSE]
            /\ World_despawn(w, entity) = [w |-> fixed, panic |-> FALSE]
            /\ fixed.entities.len = VecLen(w.entities.meta) => World_despawn(w, entity).w = w

\* despawn of a live entity: one call of the callback, with the archetype
\* that holds the entity's row, while the entity is alive; afterwards the
\* entity is dead and in no archetype
DespawnLiveCallsOnce(w, entity) ==
    LET fixed == fix_reserved_entities(w)
        r == NoReservedEntities_despawn(fixed, entity)
    IN  is_alive(fixed, entity) =>
            /\ ~r.panic
            /\ Len(r.calls) = 1
            /\ r.calls[1].entity_meta.archetype \in DOMAIN r.calls[1].w.archetypes
            /\ \A a \in DOMAIN r.calls[1].w.archetypes :
                  get_entity_idx(r.calls[1].w.archetypes[a], entity) # None
                      <=> a = r.calls[1].entity_meta.archetype
            /\ is_alive(r.calls[1].w, entity)
            /\ ~is_alive(r.w, entity)
            /\ InNoArchetype(r.w, entity)
            /\ World_despawn(w, entity) = [w |-> r.w, panic |-> FALSE]

DespawnIdempotent(w, entity) ==
    World_despawn(World_despawn(w, entity).w, entity) = World_despawn(w, entity)

\* C27: despawn of a dead or never allocated entity calls no callback and
\* changes nothing (it only completes the pending reservations), and a
\* second despawn changes nothing after the first; despawn of a live
\* entity calls the callback exactly once, with the archetype that holds
\* the entity, before the entity is marked dead.
DespawnContract ==
    \A entity \in EntityIds :
        /\ DespawnDeadIsNoOp(world, entity)
        /\ DespawnLiveCallsOnce(world, entity)
        /\ DespawnIdempotent(world, entity)

DespawnContractWitness ==
    \E dead, live \in IssuedEntities :
        /\ dead \in DOMAIN world.entities.meta
        /\ world.entities.meta[dead] = None
        /\ InNoArchetype(world, dead)
        /\ World_despawn(world, dead).w = world
        /\ is_alive(world, live)
        /\ Unwrap(meta(world, live)).archetype # 0
        /\ ~is_alive(World_despawn(world, live).w, live)
        /\ ~is_alive(world, MaxEntities)

\* ------------------------------------------------------------------ cells and tokens
MaxCalls == 3
MaxAddrs == 2
Addrs == 0..(MaxAddrs - 1)
Maps == {"coerce", "clone", "dangling"}

\* a step on the heap with the outcome the caller learns
GhostStep(h, outcome) ==
    /\ ~panicked
    /\ heap' = h
    /\ result' = Some(outcome)
    /\ panicked' = IsSome(outcome.abort)
    /\ UNCHANGED <<world, simple_world, query, borrow_flag, queries,
                   function_system, erased_column>>

\* SlowGhostCell::new; the allocator picks any free address
GhostNew(addr, map) ==
    /\ heap.next_call < MaxCalls
    /\ addr \notin DOMAIN heap.arcs
    /\ GhostStep(SlowGhostCell_new(heap, addr, map).heap,
                 [op |-> "new", abort |-> SlowGhostCell_new(heap, addr, map).abort])

\* SlowGhostCell::deref or deref_mut of a cell with a token; the cell is
\* not lent to a running get_mut
GhostDeref(self, token) ==
    /\ self \in heap.cells \ heap.upgraded
    /\ token \in heap.tokens
    /\ GhostStep(heap,
                 [op |-> "deref", cell |-> self, token |-> token,
                  abort |-> SlowGhostCell_deref(heap, self, token).abort,
                  ret |-> SlowGhostCell_deref(heap, self, token).ret])

\* the start of SlowGhostCell::get_mut, up to the call of func
GhostGetMutStart(self) ==
    /\ self \in heap.cells \ heap.upgraded
    /\ GhostStep([SlowGhostCell_get_mut(heap, self).heap EXCEPT
                     !.upgraded = IF IsSome(SlowGhostCell_get_mut(heap, self).ret)
                                  THEN @ \cup {self} ELSE @],
                 [op |-> "get_mut", abort |-> SlowGhostCell_get_mut(heap, self).abort])

\* func returns: drop(arc)
GhostGetMutEnd(self) ==
    /\ self \in heap.upgraded
    /\ GhostStep([heap EXCEPT !.arcs = Arc_drop(@, self.addr),
                              !.upgraded = @ \ {self}],
                 [op |-> "drop(arc)", abort |-> None])

\* the owner of a token drops it
GhostDropToken(token) ==
    /\ token \in heap.tokens
    /\ GhostStep([heap EXCEPT !.arcs = Arc_drop(@, token.addr),
                              !.tokens = @ \ {token}],
                 [op |-> "drop(token)", abort |-> None])

\* the owner of a cell drops it
GhostDropCell(self) ==
    /\ self \in heap.cells \ heap.upgraded
    /\ GhostStep([heap EXCEPT !.arcs = Weak_drop(@, self.addr),
                              !.cells = @ \ {self}],
                 [op |-> "drop(cell)", abort |-> None])

NextGhost ==
    \/ \E addr \in Addrs, map \in Maps : GhostNew(addr, map)
    \/ \E self \in heap.cells, token \in heap.tokens : GhostDeref(self, token)
    \/ \E self \in heap.cells : GhostGetMutStart(self)
    \/ \E self \in heap.cells : GhostGetMutEnd(self)
    \/ \E token \in heap.tokens : GhostDropToken(token)
    \/ \E self \in heap.cells : GhostDropCell(self)

SpecGhost == Init /\ [][NextGhost]_vars

\* the data behind the address is the data that the cell's call of new
\* stored
DataOfCell(h, self, addr) ==
    /\ addr = self.addr
    /\ h.arcs[addr].call = self.call
    /\ h.arcs[addr].data = Some(self.call)

\* deref and deref_mut of the cell with the token keep the contract
DerefContract(h, self, token) ==
    LET r == SlowGhostCell_deref(h, self, token)
    IN  /\ r.abort = None =>
              /\ token.call = self.call
              /\ h.arcs[token.addr].strong = 1
              /\ DataOfCell(h, self, Unwrap(r.ret))
        /\ token.call # self.call => IsSome(r.abort) /\ r.ret = None

\* C29: SlowGhostCell::deref and deref_mut return a reference only for the
\* token of the cell's own call of SlowGhostCell::new and only while that
\* token is the one strong owner, and then the reference points to the
\* data of that call; with any other token they abort.
OnlyMatchingToken ==
    /\ \A self \in heap.cells, token \in heap.tokens : DerefContract(heap, self, token)
    /\ (result # None /\ Unwrap(result).op = "deref") =>
          /\ Unwrap(result).abort = None =>
                 /\ Unwrap(result).token.call = Unwrap(result).cell.call
                 /\ DataOfCell(heap, Unwrap(result).cell, Unwrap(Unwrap(result).ret))
          /\ Unwrap(result).token.call # Unwrap(result).cell.call =>
                 IsSome(Unwrap(result).abort)

\* a deref has returned the data while the token of another call is there
\* too, at an address that an earlier allocation had
OnlyMatchingTokenWitness ==
    /\ result # None
    /\ Unwrap(result).op = "deref"
    /\ Unwrap(result).abort = None
    /\ DataOfCell(heap, Unwrap(result).cell, Unwrap(Unwrap(result).ret))
    /\ heap.next_call = MaxCalls
    /\ \E token \in heap.tokens :
          /\ token.call # Unwrap(result).cell.call
          /\ IsSome(SlowGhostCell_deref(heap, Unwrap(result).cell, token).abort)

\* ------------------------------------------------------------------ ownership of the values
\* A Table<T> for each static type: the RawTable of the type is the data
\* of an allocation, which the Table's token owns and the World's cell
\* points to.  The n-th table is made by the n-th call of
\* SlowGhostCell::new and gets the EcsTypeId n; columns[n] of the World of
\* the model holds the columns of that RawTable while the data lives.
TokenOf(h, id) == CHOOSE token \in h.tokens : token.call = id

TableAlive(w, h, T) ==
    /\ T \in DOMAIN w.ecs_type_ids
    /\ \E token \in h.tokens : token.call = w.ecs_type_ids[T]

\* the RawTable of the column family has not been dropped
FamilyAlive(h, id) ==
    \E addr \in DOMAIN h.arcs : h.arcs[addr].call = id /\ IsSome(h.arcs[addr].data)

\* drop of a Table: its token goes, and with the last Arc the RawTable
Table_drop(h, token) ==
    [h EXCEPT !.arcs = Arc_drop(@, token.addr), !.tokens = @ \ {token}]

RECURSIVE SumOver(_, _)
SumOver(f, S) ==
    IF S = {} THEN 0
    ELSE LET x == CHOOSE y \in S : TRUE
         IN  f[x] + SumOver(f, S \ {x})

\* how often the value is a cell of the column family
CountFamily(family, v) ==
    SumOver([c \in DOMAIN family |->
                Cardinality({i \in DOMAIN family[c] : family[c][i] = v})],
            DOMAIN family)

\* how often the value is stored in a cell of a living RawTable
StoredCount(w, h, v) ==
    SumOver([id \in DOMAIN w.columns |->
                IF FamilyAlive(h, id) THEN CountFamily(w.columns[id], v) ELSE 0],
            DOMAIN w.columns)

NoValues == [v \in Values |-> 0]
CountOption(o) == [v \in Values |-> IF o = Some(v) THEN 1 ELSE 0]

\* the values that the closure of World::despawn takes out of the columns
\* with swap_remove_and_drop, which drops them
despawn_dropped(w, entity) ==
    IF ~is_alive(w, entity) THEN NoValues
    ELSE LET archetype == w.archetypes[Unwrap(meta(w, entity)).archetype]
             entity_idx == Unwrap(get_entity_idx(archetype, entity))
         IN  [v \in Values |->
                Cardinality({ty_id \in DOMAIN archetype.column_indices :
                    w.columns[ty_id][archetype.column_indices[ty_id]][entity_idx] = v})]

\* the values that go with the RawTable when the last Arc is dropped
Table_drop_dropped(w, h, token) ==
    IF h.arcs[token.addr].strong = 1
    THEN [v \in Values |-> CountFamily(w.columns[token.call], v)]
    ELSE NoValues

\* what a step did with values: the values that came in, the values handed
\* back to the caller and the values dropped, each as a count per value
Ledger(op, entity, T, in, ret, dropped) ==
    [op |-> op, entity |-> entity, T |-> T, in |-> in, ret |-> ret, dropped |-> dropped]

OwnStep(w, h, ledger, panic) ==
    /\ ~panicked
    /\ WithinBounds(w)
    /\ world' = w
    /\ heap' = h
    /\ result' = Some(ledger)
    /\ panicked' = panic
    /\ UNCHANGED <<simple_world, query, borrow_flag, queries, function_system,
                   erased_column>>

\* no column of the entity's archetype belongs to a dropped RawTable
Untouched(w, h, entity) ==
    /\ is_alive(w, entity)
    /\ \A id \in DOMAIN w.archetypes[Unwrap(meta(w, entity)).archetype].column_indices :
          FamilyAlive(h, id)

\* Table::<T>::new(&mut world)
OwnNewTable(T, addr) ==
    /\ T \notin DOMAIN world.ecs_type_ids
    /\ addr \notin DOMAIN heap.arcs
    /\ heap.next_call < MaxCalls
    /\ OwnStep(type_to_ecs_type_id_or_create(world, T).w,
               SlowGhostCell_new(heap, addr, "coerce").heap,
               Ledger("new", 0, T, NoValues, NoValues, NoValues), FALSE)

OwnSpawn ==
    OwnStep(World_spawn(world).w, heap,
            Ledger("spawn", 0, "", NoValues, NoValues, NoValues), FALSE)

\* an operation with the outcome r that hands back r.ret
OwnCall(op, entity, T, r, in) ==
    OwnStep(r.w, heap, Ledger(op, entity, T, in, CountOption(r.ret), NoValues), r.panic)

OwnInsert(entity, T, data) ==
    /\ TableAlive(world, heap, T)
    /\ Untouched(world, heap, entity)
    /\ OwnCall("insert", entity, T, insert_component(world, entity, T, data),
               CountOption(Some(data)))

OwnRemove(entity, T) ==
    /\ TableAlive(world, heap, T)
    /\ Untouched(world, heap, entity)
    /\ OwnCall("remove", entity, T, remove_component(world, entity, T), NoValues)

OwnDespawn(entity) ==
    /\ Untouched(world, heap, entity)
    /\ OwnStep(World_despawn(world, entity).w, heap,
               Ledger("despawn", entity, "", NoValues, NoValues,
                      despawn_dropped(world, entity)),
               World_despawn(world, entity).panic)

\* drop(table) while the World lives on
OwnDropTable(T) ==
    /\ TableAlive(world, heap, T)
    /\ OwnStep(world, Table_drop(heap, TokenOf(heap, world.ecs_type_ids[T])),
               Ledger("drop", 0, T, NoValues, NoValues,
                      Table_drop_dropped(world, heap, TokenOf(heap, world.ecs_type_ids[T]))),
               FALSE)

NextOwnership ==
    \/ \E T \in StaticTypes, addr \in Addrs : OwnNewTable(T, addr)
    \/ OwnSpawn
    \/ \E entity \in IssuedEntities, T \in StaticTypes, data \in Values :
          OwnInsert(entity, T, data)
    \/ \E entity \in IssuedEntities, T \in StaticTypes : OwnRemove(entity, T)
    \/ \E entity \in IssuedEntities : OwnDespawn(entity)
    \/ \E T \in StaticTypes : OwnDropTable(T)

SpecOwnership == Init /\ [][NextOwnership]_vars

\* every cell of a living RawTable is the cell of one row of one archetype:
\* a column that an archetype uses has as many cells as the archetype has
\* entities, no column is used by two archetypes, and a column that no
\* archetype uses is empty
CellsOwned ==
    \A id \in DOMAIN world.columns : FamilyAlive(heap, id) =>
        \A c \in DOMAIN world.columns[id] :
            LET users == {a \in DOMAIN world.archetypes :
                             /\ id \in DOMAIN world.archetypes[a].column_indices
                             /\ world.archetypes[a].column_indices[id] = c}
            IN  /\ Cardinality(users) <= 1
                /\ users = {} => world.columns[id][c] = <<>>
                /\ \A a \in users :
                      /\ VecLen(world.columns[id][c]) = VecLen(world.archetypes[a].entities)
                      /\ \A i \in DOMAIN world.archetypes[a].entities :
                            is_alive(world, world.archetypes[a].entities[i])

\* a step neither makes nor loses a value: what is stored afterwards,
\* together with what the step handed back and what it dropped, is what
\* was stored before together with what came in
Conserved ==
    \A v \in Values :
        StoredCount(world', heap', v) + Unwrap(result').ret[v] + Unwrap(result').dropped[v]
            = StoredCount(world, heap, v) + Unwrap(result').in[v]

\* what a step hands back and what it drops: an insert hands back the value
\* it overwrote, a remove the value of the entity, and they drop nothing;
\* a despawn drops the values of the entity and hands back nothing; the
\* drop of a Table drops every value of its RawTable at once
HandedBackOrDropped ==
    LET ledger == Unwrap(result')
    IN  /\ ledger.op \in {"insert", "remove"} =>
              /\ ledger.ret = CountOption(get_component(world, ledger.T, ledger.entity))
              /\ ledger.dropped = NoValues
        /\ ledger.op = "despawn" =>
              /\ ledger.ret = NoValues
              /\ \A v \in Values :
                    ledger.dropped[v] =
                        Cardinality({T \in StaticTypes :
                                        get_component(world, T, ledger.entity) = Some(v)})
        /\ ledger.op = "drop" =>
              /\ ledger.ret = NoValues
              /\ ~FamilyAlive(heap', world.ecs_type_ids[ledger.T])
              /\ \A v \in Values :
                    /\ ledger.dropped[v] = CountFamily(world.columns[world.ecs_type_ids[ledger.T]], v)
                    /\ StoredCount(world', heap', v) = StoredCount(world, heap, v) - ledger.dropped[v]
        /\ ledger.op \in {"new", "spawn"} => ledger.ret = NoValues /\ ledger.dropped = NoValues

LockBorrow(num_chopped_off, offset, len) ==
    [num_chopped_off |-> num_chopped_off, offset |-> offset, len |-> len]

\* <&mut T>::lock_borrows_from_locks: (0, the whole slice)
RefMut_lock_borrows_from_locks(w, ecs_type_id) ==
    LockBorrow(0, 0, VecLen(w.columns[ecs_type_id]))

\* an item_iter_from_archetype that does not count what it chops off
RefMut_item_iter_from_archetype_no_count(archetype, lock_borrow, ecs_type_id) ==
    LET col == archetype.column_indices[ecs_type_id]
        idx == col - lock_borrow.num_chopped_off
    IN  IF ~(col >= lock_borrow.num_chopped_off)
        THEN [lock_borrow |-> lock_borrow, slot |-> None, panic |-> Some("[assert]")]
        ELSE IF idx + 1 > lock_borrow.len
        THEN [lock_borrow |-> lock_borrow, slot |-> None, panic |-> Some("[split_at_mut]")]
        ELSE [lock_borrow |-> LockBorrow(lock_borrow.num_chopped_off,
                                         lock_borrow.offset + idx + 1,
                                         lock_borrow.len - (idx + 1)),
              slot |-> Some(lock_borrow.offset + idx),
              panic |-> None]

\* <&mut T>::item_iter_from_archetype: the slice is split behind the
\* column of the archetype, the front part is chopped off and its last
\* column is handed out; slot is the place of that column in the family
RefMut_item_iter_from_archetype(archetype, lock_borrow, ecs_type_id) ==
    LET col == archetype.column_indices[ecs_type_id]
        idx == col - lock_borrow.num_chopped_off
    IN  IF ~(col >= lock_borrow.num_chopped_off)
        THEN [lock_borrow |-> lock_borrow, slot |-> None, panic |-> Some("[assert]")]
        ELSE IF idx + 1 > lock_borrow.len
        THEN [lock_borrow |-> lock_borrow, slot |-> None, panic |-> Some("[split_at_mut]")]
        ELSE [lock_borrow |-> LockBorrow(lock_borrow.num_chopped_off + idx + 1,
                                         lock_borrow.offset + idx + 1,
                                         lock_borrow.len - (idx + 1)),
              slot |-> Some(lock_borrow.offset + idx),
              panic |-> None]

\* the archetypes that hold the type
ArchetypesWith(w, ecs_type_id) ==
    {a \in DOMAIN w.archetypes : ecs_type_id \in DOMAIN w.archetypes[a].column_indices}

\* an iteration of a query with the term &mut T: where its archetype
\* iterator is, the LockBorrow of the term, and the archetypes and the
\* slots it has handed out so far
MutIter(ecs_type_id, archetype_iter, lock_borrow, visited, slots) ==
    [kind |-> "MutIter", ecs_type_id |-> ecs_type_id, archetype_iter |-> archetype_iter,
     lock_borrow |-> lock_borrow, visited |-> visited, slots |-> slots]

\* World::query with a term &mut T of a registered type
MutIterStart(T) ==
    /\ ~panicked
    /\ query = None
    /\ queries = <<>>
    /\ T \in DOMAIN world.ecs_type_ids
    /\ query' = Some(MutIter(world.ecs_type_ids[T], 0,
                             RefMut_lock_borrows_from_locks(world, world.ecs_type_ids[T]),
                             <<>>, <<>>))
    /\ UNCHANGED <<world, simple_world, panicked, borrow_flag, queries, result,
                   function_system, erased_column, heap>>

\* the iterator comes to the archetype a with the outcome r
MutIterStep(a, r) ==
    /\ panicked' = IsSome(r.panic)
    /\ query' = IF IsSome(r.panic) THEN query
                ELSE Some(MutIter(Unwrap(query).ecs_type_id, a + 1, r.lock_borrow,
                                  Append(Unwrap(query).visited, a),
                                  Append(Unwrap(query).slots, Unwrap(r.slot))))
    /\ UNCHANGED <<world, simple_world, borrow_flag, queries, result,
                   function_system, erased_column, heap>>

\* QueryIter::next comes to the next archetype that matches all terms: any
\* later archetype that holds the type, as the other terms may rule out
\* the ones before it
MutIterNext(a) ==
    /\ ~panicked
    /\ query # None
    /\ a \in ArchetypesWith(world, Unwrap(query).ecs_type_id)
    /\ a >= Unwrap(query).archetype_iter
    /\ MutIterStep(a, RefMut_item_iter_from_archetype(
                          world.archetypes[a], Unwrap(query).lock_borrow,
                          Unwrap(query).ecs_type_id))

\* the iterator and its locks are dropped; the caller keeps the number of
\* archetypes it went through
MutIterDrop ==
    /\ ~panicked
    /\ query # None
    /\ query' = None
    /\ result' = Some([visited |-> Len(Unwrap(query).visited)])
    /\ UNCHANGED <<world, simple_world, panicked, borrow_flag, queries,
                   function_system, erased_column, heap>>

NextMutIter ==
    \/ Spawn
    \/ \E entity \in IssuedEntities : Despawn(entity)
    \/ \E entity \in IssuedEntities, type_id \in StaticTypes, component \in Values :
          Insert(entity, type_id, component)
    \/ \E entity \in IssuedEntities, type_id \in StaticTypes : Remove(entity, type_id)
    \/ \E T \in StaticTypes : MutIterStart(T)
    \/ \E a \in DOMAIN world.archetypes : MutIterNext(a)
    \/ MutIterDrop

SpecMutIter == Init /\ [][NextMutIter]_vars

\* the column slots of a type increase with the index of the archetype
ColumnSlotsIncrease(w) ==
    \A ecs_type_id \in DOMAIN w.columns :
        \A a, b \in ArchetypesWith(w, ecs_type_id) :
            a < b => w.archetypes[a].column_indices[ecs_type_id]
                         < w.archetypes[b].column_indices[ecs_type_id]

\* the next call of item_iter_from_archetype, for whichever archetype the
\* iterator comes to next, passes the assertion and splits inside the
\* remaining slice
NextChopPasses ==
    query # None =>
        \A a \in ArchetypesWith(world, Unwrap(query).ecs_type_id) :
            a >= Unwrap(query).archetype_iter =>
                LET r == RefMut_item_iter_from_archetype(
                             world.archetypes[a], Unwrap(query).lock_borrow,
                             Unwrap(query).ecs_type_id)
                IN  /\ r.panic = None
                    /\ world.archetypes[a].column_indices[Unwrap(query).ecs_type_id]
                           >= Unwrap(query).lock_borrow.num_chopped_off
                    /\ r.slot = Some(world.archetypes[a].column_indices[Unwrap(query).ecs_type_id])

\* the slots handed out so far are the columns of the archetypes visited,
\* each of them once
SlotsHandedOnce ==
    query # None =>
        LET it == Unwrap(query)
        IN  /\ \A j, k \in DOMAIN it.slots : j # k => it.slots[j] # it.slots[k]
            /\ \A k \in DOMAIN it.slots :
                  it.slots[k] = world.archetypes[it.visited[k]].column_indices[it.ecs_type_id]

\* C30: for every component type the column slots that the archetypes
\* record increase with the order in which the archetypes were made;
\* hence in an iteration of a term &mut T the assertion
\* col >= num_chopped_off holds, the split index lies inside the remaining
\* slice, and no column slot is handed out twice.
ChopOffNeverFails ==
    /\ ~panicked
    /\ ColumnSlotsIncrease(world)
    /\ NextChopPasses
    /\ SlotsHandedOnce

ChopOffNeverFailsWitness ==
    /\ query # None
    /\ Len(Unwrap(query).slots) = 2
    /\ Unwrap(query).slots[1] < Unwrap(query).slots[2]
    /\ Unwrap(query).lock_borrow.num_chopped_off = Unwrap(query).slots[2] + 1
    /\ VecLen(world.archetypes) = 4

\* ------------------------------------------------------------------ systems with queries and Commands
\* the cells that Command::apply borrows with RefCell::borrow_mut on w:
\* get_component_mut borrows the cell of T when the entity has T, and
\* move_entity_from_insert and move_entity_from_remove borrow the cell of
\* every column that moves with the entity
borrow_mut_cells(cmd, w) ==
    LET t == IF cmd.kind = "InsertCmd"
             THEN type_to_ecs_type_id_or_create(w, cmd.T).w ELSE w
        m == meta(t, cmd.entity)
        id == type_to_ecs_type_id(t, cmd.T)
        ids == IF m = None THEN {}
               ELSE DOMAIN t.archetypes[Unwrap(m).archetype].column_indices
    IN  IF m = None \/ id = None THEN {}
        ELSE IF cmd.kind = "InsertCmd"
        THEN (IF Unwrap(id) \in ids THEN {Unwrap(id)} ELSE ids)
        ELSE (IF Unwrap(id) \in ids THEN ids \ {Unwrap(id)} ELSE {})

\* the borrows of the commands of a buffer, each on the World that the
\* commands before it left: the cells they borrow, and whether one of
\* them is borrowed already (the BorrowMutError that borrow_mut aborts on)
RECURSIVE borrows_drained(_, _, _, _)
borrows_next(cmds, r, flags, cells) ==
    IF \E id \in cells : borrow_of(flags, id) # 0
    THEN [already_borrowed |-> TRUE, cells |-> cells]
    ELSE IF r.panic THEN [already_borrowed |-> FALSE, cells |-> cells]
    ELSE borrows_drained(cmds, r.w, flags, cells)

borrows_drained(cmds, w, flags, cells) ==
    IF cmds = <<>> THEN [already_borrowed |-> FALSE, cells |-> cells]
    ELSE borrows_next(Tail(cmds), Command_apply(Head(cmds), w), flags,
                      cells \cup borrow_mut_cells(Head(cmds), w))

\* <Commands as SystemParam>::system_finish_event on a World whose cells
\* carry the borrow flags flags
finish_outcome(b, r, w, flags) ==
    [self |-> r.self,
     w |-> IF b.already_borrowed THEN w ELSE r.w,
     panic |-> b.already_borrowed \/ r.panic,
     already_borrowed |-> b.already_borrowed,
     cells |-> b.cells,
     flags |-> flags]

system_finish_event(state, w, flags) ==
    finish_outcome(borrows_drained(state, fix_reserved_entities(w), flags, {}),
                   CommandBuffer_apply(state, w), w, flags)

\* the drop of the Query parameters that the body still holds
RECURSIVE drop_params(_, _)
drop_params(flags, params) ==
    IF params = <<>> THEN flags
    ELSE drop_params(Query_drop(flags, Head(params).locks), Tail(params))

\* the arguments of the call in System::run, from the k-th Query parameter
\* on: from_world(world, state).unwrap(); the unwinding of the panic drops
\* the parameters that were fetched
RECURSIVE from_world_params(_, _, _, _, _)
from_world_params(w, flags, system, k, params) ==
    IF k > Len(system) THEN [panic |-> FALSE, params |-> params, flags |-> flags]
    ELSE LET r == World_query(w, flags, system[k])
         IN  IF r.err
             THEN [panic |-> TRUE, params |-> <<>>,
                   flags |-> drop_params(flags, params)]
             ELSE from_world_params(w, r.flags, system, k + 1,
                      Append(params, [Q |-> system[k], locks |-> r.lock]))

\* a System::run that calls system_finish_event while the parameters of
\* the call are alive
System_run_finish_params_alive(state, w, flags, params) ==
    system_finish_event(state, w, flags)

\* System::run from the return of the body: the call expression is over
\* and its arguments are dropped, then system_finish_event of every
\* parameter runs with &mut World
System_run_finish(state, w, flags, params) ==
    system_finish_event(state, w, drop_params(flags, params))

\* the Query parameters of the systems that are run, each system with a
\* Commands parameter after them
RunSystems ==
    {<<<<RefMut("u32")>>>>,
     <<<<Ref("u32")>>>>,
     <<<<Ref("u64")>>, <<EntityTerm, RefMut("u32")>>>>}

\* system.run(world) up to the call of the body
RunQueriesStartStep(r) ==
    /\ ~panicked
    /\ ~function_system.running
    /\ query = None
    /\ queries = <<>>
    /\ panicked' = r.panic
    /\ queries' = r.params
    /\ borrow_flag' = r.flags
    /\ function_system' = FunctionSystem(function_system.state, ~r.panic)
    /\ result' = None
    /\ UNCHANGED <<world, simple_world, query, erased_column, heap>>

RunQueriesStart(system) ==
    RunQueriesStartStep(from_world_params(world, borrow_flag, system, 1, <<>>))

\* the body drops one of its Query parameters before it returns
BodyDropsQuery(i) ==
    /\ ~panicked
    /\ function_system.running
    /\ QueryDropAt(i)

\* the end of System::run with the outcome r of system_finish_event; the
\* caller keeps what the body held when it returned, what the commands
\* met, and the number of commands
RunQueriesFinishStep(r, sw, held, recorded) ==
    /\ ~panicked
    /\ function_system.running
    /\ WithinBounds(r.w)
    /\ panicked' = r.panic
    /\ world' = IF r.panic THEN world ELSE r.w
    /\ simple_world' = IF r.panic THEN simple_world ELSE sw
    /\ function_system' = FunctionSystem(r.self, FALSE)
    /\ queries' = <<>>
    /\ borrow_flag' = drop_params(borrow_flag, held)
    /\ result' = Some([finish |-> TRUE,
                       held |-> {l.id : l \in UNION {
                                    {Unwrap(held[i].locks)[k] :
                                        k \in DOMAIN Unwrap(held[i].locks)} :
                                    i \in {j \in DOMAIN held : IsSome(held[j].locks)}}},
                       flags |-> r.flags,
                       cells |-> r.cells,
                       already_borrowed |-> r.already_borrowed,
                       recorded |-> Len(recorded)])
    /\ UNCHANGED <<query, erased_column, heap>>

RunQueriesFinish ==
    RunQueriesFinishStep(
        System_run_finish(function_system.state, world, borrow_flag, queries),
        apply_Commands(apply_FixReserved(simple_world, world), function_system.state),
        queries,
        function_system.state)

\* the World is built by spawn and by the commands of the systems
NextRun ==
    \/ Spawn
    \/ \E system \in RunSystems : RunQueriesStart(system)
    \/ \E i \in 1..2 : BodyDropsQuery(i)
    \/ \E entity \in IssuedEntities, T \in StaticTypes :
          CommandsInsert(entity, T, 10)
    \/ \E entity \in IssuedEntities, T \in StaticTypes : CommandsRemove(entity, T)
    \/ RunQueriesFinish

SpecRun == Init /\ [][NextRun]_vars

\* C31: when System::run applies the deferred commands of a system, every
\* column borrow that was acquired for the Query parameters of the system
\* is released: the commands meet no cell that is borrowed, whatever the
\* queries read or wrote, and no borrow is left behind
BorrowsReleasedBeforeCommands ==
    (result # None /\ "finish" \in DOMAIN Unwrap(result)) =>
        /\ Unwrap(result).flags = <<>>
        /\ ~Unwrap(result).already_borrowed
        /\ borrow_flag = <<>>
        /\ queries = <<>>

\* the body returned while it held a mutable borrow of a column that one
\* of its commands then borrowed
BorrowsReleasedBeforeCommandsWitness ==
    /\ result # None
    /\ "finish" \in DOMAIN Unwrap(result)
    /\ Unwrap(result).recorded >= 1
    /\ Unwrap(result).held \cap Unwrap(result).cells # {}
    /\ ~panicked

\* ------------------------------------------------------------------ access sets and locks
\* the shapes of the queries whose access is compared with their locks
AccessShapes ==
    {<<Ref("u32")>>,
     <<RefMut("u32")>>,
     <<Ref("u32"), Ref("u32")>>,
     <<Ref("u32"), RefMut("u32")>>,
     <<RefMut("u32"), RefMut("u32")>>,
     <<Maybe(RefMut("u32")), RefMut("u32")>>,
     <<Maybe(Ref("u32")), Ref("u64")>>,
     <<EntityTerm, RefMut("u64")>>}

AccessSystems == UNION {[1..n -> AccessShapes] : n \in 1..2}

\* let mut system = func.system(); system.get_access(); system.run(world):
\* the caller keeps the access, and whether and where from_world answered
\* Err; the parameters are dropped when the body returns
AccessAndRunStep(system, access, r) ==
    /\ ~panicked
    /\ query = None
    /\ queries = <<>>
    /\ result' = Some([locked |-> system, access |-> access, lock_err |-> r.panic,
                       fetched |-> Len(r.params),
                       flags |-> r.flags])
    /\ panicked' = r.panic
    /\ UNCHANGED <<world, simple_world, query, borrow_flag, queries, function_system,
                   erased_column, heap>>

AccessAndRun(system) ==
    AccessAndRunStep(system, System_get_access(system),
                     from_world_params(world, borrow_flag, system, 1, <<>>))

NextLocks ==
    \/ Spawn
    \/ \E entity \in IssuedEntities, type_id \in StaticTypes :
          Insert(entity, type_id, 10)
    \/ \E system \in AccessSystems : AccessAndRun(system)

SpecLocks == Init /\ [][NextLocks]_vars

\* C32: the access analysis is sound for the locks: when get_access of a
\* tuple of query parameters returns Ok, the locks of all the parameters,
\* acquired in order on a World with no other live borrow, are granted
\* and no lock_from_world returns WorldBorrowError
AccessSoundForLocks ==
    (result # None /\ "locked" \in DOMAIN Unwrap(result)) =>
        LET r == Unwrap(result)
        IN  /\ ~r.access.err =>
                  /\ ~r.lock_err
                  /\ r.fetched = Len(r.locked)
            /\ \A k \in DOMAIN r.locked :
                  ~tuple_get_access(r.locked[k]).err =>
                      ~World_query(world, <<>>, r.locked[k]).err

\* a system whose access is Ok took a shared lock on u32 twice and a
\* mutable lock on u64 while both types had columns
AccessSoundForLocksWitness ==
    /\ result # None
    /\ "locked" \in DOMAIN Unwrap(result)
    /\ Unwrap(result).locked = <<<<Ref("u32"), Ref("u32")>>, <<EntityTerm, RefMut("u64")>>>>
    /\ ~Unwrap(result).access.err
    /\ Unwrap(result).fetched = 2
    /\ DOMAIN Unwrap(result).flags = DOMAIN world.columns
    /\ Cardinality(DOMAIN world.columns) = 2

\* ------------------------------------------------------------------ borrows outside World::query
\* DynQueryParam::new_ref and DynQueryParam::new_mut
DynQueryParam(id, mut) == [id |-> id, mut |-> mut]

\* RefCell::borrow and RefCell::borrow_mut abort where try_borrow and
\* try_borrow_mut answer Err
borrow_panics(flags, id) == borrow_of(flags, id) < 0
borrow_mut_panics(flags, id) == borrow_of(flags, id) # 0

\* Query::add_dyn_param: the parameter is pushed and, when the Query holds
\* locks, the cell of the column family is borrowed with borrow_mut() or
\* with borrow() and the borrow joins the locks of the Query
add_dyn_param(self, flags, param) ==
    LET pushed == [self EXCEPT !.dyn_params = Append(@, param)]
    IN  IF self.locks = None
        THEN [self |-> pushed, flags |-> flags, panic |-> FALSE]
        ELSE IF param.mut
        THEN IF borrow_mut_panics(flags, param.id)
             THEN [self |-> self, flags |-> flags, panic |-> TRUE]
             ELSE [self |-> [pushed EXCEPT !.locks =
                                Some(Append(Unwrap(@), Lock(param.id, TRUE)))],
                   flags |-> set_borrow(flags, param.id, -1),
                   panic |-> FALSE]
        ELSE IF borrow_panics(flags, param.id)
             THEN [self |-> self, flags |-> flags, panic |-> TRUE]
             ELSE [self |-> [pushed EXCEPT !.locks =
                                Some(Append(Unwrap(@), Lock(param.id, FALSE)))],
                   flags |-> set_borrow(flags, param.id, borrow_of(flags, param.id) + 1),
                   panic |-> FALSE]

\* World::get_column and World::get_column_mut on the cell of a family
get_column(flags, ecs_type_id) == [panic |-> borrow_panics(flags, ecs_type_id)]
get_column_mut(flags, ecs_type_id) == [panic |-> borrow_mut_panics(flags, ecs_type_id)]

\* World::get_component and World::get_component_mut with the borrow of
\* the cell; the caller drops the cell::Ref or cell::RefMut at once
World_get_component(w, flags, T, entity) ==
    IF get_component(w, T, entity) = None THEN [ret |-> None, panic |-> FALSE]
    ELSE IF get_column(flags, Unwrap(type_to_ecs_type_id(w, T))).panic
    THEN [ret |-> None, panic |-> TRUE]
    ELSE [ret |-> get_component(w, T, entity), panic |-> FALSE]

World_get_component_mut(w, flags, T, entity) ==
    IF get_component(w, T, entity) = None THEN [ret |-> None, panic |-> FALSE]
    ELSE IF get_column_mut(flags, Unwrap(type_to_ecs_type_id(w, T))).panic
    THEN [ret |-> None, panic |-> TRUE]
    ELSE [ret |-> get_component(w, T, entity), panic |-> FALSE]

\* the shapes of the queries that are alive while borrows are acquired
AcquireShapes == {<<EntityTerm>>, <<Ref("u32")>>, <<RefMut("u32")>>}

\* an acquisition of borrows: what was called, whether it met a live
\* borrow that it conflicts with, whether it aborted, and whether it
\* handed a failure value to the caller
Acquired(op, conflict, panic, err) ==
    Some([acquire |-> op, conflict |-> conflict, panic |-> panic, err |-> err])

\* let q = world.query::<Q>()
AcquireQueryStep(Q, r) ==
    /\ ~panicked
    /\ query = None
    /\ Len(queries) < MaxQueries
    /\ result' = Acquired("query", would_violate(world, live_locks(queries), Q),
                          FALSE, r.err)
    /\ borrow_flag' = r.flags
    /\ queries' = IF r.err THEN queries
                  ELSE Append(queries, [Q |-> Q, locks |-> r.lock, dyn_params |-> <<>>])
    /\ UNCHANGED <<world, simple_world, panicked, query, function_system, erased_column, heap>>

AcquireQuery(Q) == AcquireQueryStep(Q, World_query(world, borrow_flag, Q))

\* q.add_dyn_param(param) on the i-th Query that is alive
AddDynParamStep(i, param, r) ==
    /\ ~panicked
    /\ query = None
    /\ Len(queries[i].dyn_params) < 1
    /\ result' = Acquired("add_dyn_param",
                          /\ queries[i].locks # None
                          /\ IF param.mut THEN borrow_of(borrow_flag, param.id) # 0
                             ELSE borrow_of(borrow_flag, param.id) < 0,
                          r.panic, FALSE)
    /\ panicked' = r.panic
    /\ borrow_flag' = r.flags
    /\ queries' = [queries EXCEPT ![i] = r.self]
    /\ UNCHANGED <<world, simple_world, query, function_system, erased_column, heap>>

AddDynParam(i, param) ==
    /\ i \in DOMAIN queries
    /\ AddDynParamStep(i, param, add_dyn_param(queries[i], borrow_flag, param))

\* world.get_component::<T>(entity) and world.get_component_mut::<T>(entity)
\* while queries are alive
GetComponentStep(op, T, entity, conflict, r) ==
    /\ ~panicked
    /\ query = None
    /\ queries # <<>>
    /\ result' = Acquired(op, IsSome(get_component(world, T, entity)) /\ conflict,
                          r.panic, FALSE)
    /\ panicked' = r.panic
    /\ UNCHANGED <<world, simple_world, query, borrow_flag, queries, function_system,
                   erased_column, heap>>

GetComponent(T, entity) ==
    GetComponentStep("get_component", T, entity,
        /\ T \in DOMAIN world.ecs_type_ids
        /\ borrow_of(borrow_flag, world.ecs_type_ids[T]) < 0,
        World_get_component(world, borrow_flag, T, entity))

GetComponentMut(T, entity) ==
    GetComponentStep("get_component_mut", T, entity,
        /\ T \in DOMAIN world.ecs_type_ids
        /\ borrow_of(borrow_flag, world.ecs_type_ids[T]) # 0,
        World_get_component_mut(world, borrow_flag, T, entity))

NextAcquire ==
    \/ NewDynamicEcsTypeId(4)
    \/ Spawn
    \/ \E entity \in IssuedEntities, type_id \in StaticTypes :
          Insert(entity, type_id, 10)
    \/ \E Q \in AcquireShapes : AcquireQuery(Q)
    \/ \E i \in 1..MaxQueries : QueryDropAt(i)
    \/ \E i \in 1..MaxQueries, id \in simple_world.ecs_type_ids, mut \in BOOLEAN :
          AddDynParam(i, DynQueryParam(id, mut))
    \/ \E T \in StaticTypes, entity \in IssuedEntities : GetComponent(T, entity)
    \/ \E T \in StaticTypes, entity \in IssuedEntities : GetComponentMut(T, entity)

SpecAcquire == Init /\ [][NextAcquire]_vars

\* C33: every acquisition of a column borrow that conflicts with a live
\* borrow hands a failure value to the caller and never aborts, for
\* Query::add_dyn_param, World::get_component and World::get_component_mut
\* as for World::query
ConflictsRecoverable ==
    (result # None /\ "acquire" \in DOMAIN Unwrap(result) /\ Unwrap(result).conflict) =>
        /\ ~Unwrap(result).panic
        /\ Unwrap(result).err

\* World::query alone keeps the rule
QueryConflictsRecoverable ==
    (result # None /\ "acquire" \in DOMAIN Unwrap(result)
        /\ Unwrap(result).acquire = "query") =>
        /\ ~Unwrap(result).panic
        /\ Unwrap(result).err = Unwrap(result).conflict

\* ------------------------------------------------------------------ DynamicTable
\* a column of a DynamicTable is a Vec of chunks of A = layout.align()
\* bytes each, a chunk being the sequence of its bytes
chunks_per_component(layout) == layout.size \div layout.align

component_chunks(layout, entity_idx) ==
    Range(entity_idx * chunks_per_component(layout),
          (entity_idx + 1) * chunks_per_component(layout))

\* AlignedBytes::new_from_iter: data.chunks_exact(size_of::<T>()); the
\* bytes after the last whole chunk are left out
new_from_iter(A, data) ==
    [c \in 1..(Len(data) \div A) |-> SubSeq(data, (c - 1) * A + 1, c * A)]

RECURSIVE push_all(_, _)
push_all(v, xs) == IF xs = <<>> THEN v ELSE push_all(push(v, Head(xs)), Tail(xs))

\* <Vec<T> as AlignedBytesVec>::push
Vec_push(self, A, data) == push_all(self, new_from_iter(A, data))

\* as_byte_slice: the bytes of the chunks from chunk i on
RECURSIVE Vec_as_byte_slice(_, _)
Vec_as_byte_slice(self, i) ==
    IF i >= VecLen(self) THEN <<>> ELSE self[i] \o Vec_as_byte_slice(self, i + 1)

\* the chunks that as_byte_slice_mut leaves after the bytes from start on
\* were overwritten with data
write_byte_slice(self, A, start, data) ==
    LET bytes == Vec_as_byte_slice(self, 0)
        written == [p \in 1..Len(bytes) |->
                       IF p > start /\ p <= start + Len(data)
                       THEN data[p - start] ELSE bytes[p]]
    IN  [c \in 0..(VecLen(self) - 1) |-> SubSeq(written, c * A + 1, (c + 1) * A)]

\* for idx in elements.rev() { self.swap_remove(idx) }, with the chunks of
\* range start..end left to remove; swap_remove aborts on idx >= len
RECURSIVE swap_remove_rev(_, _, _)
swap_remove_rev(v, start, end) ==
    IF end <= start THEN [v |-> v, panic |-> FALSE]
    ELSE IF end - 1 >= VecLen(v) THEN [v |-> v, panic |-> TRUE]
    ELSE swap_remove_rev(swap_remove(v, end - 1), start, end - 1)

\* the loop in the order of the range
RECURSIVE swap_remove_fwd(_, _, _)
swap_remove_fwd(v, start, end) ==
    IF end <= start THEN [v |-> v, panic |-> FALSE]
    ELSE IF start >= VecLen(v) THEN [v |-> v, panic |-> TRUE]
    ELSE swap_remove_fwd(swap_remove(v, start), start + 1, end)

\* a swap_remove_drop that removes the chunks in ascending order
Vec_swap_remove_drop_ascending(self, elements) ==
    swap_remove_fwd(self, elements.start, elements.end)

\* <Vec<T> as AlignedBytesVec>::swap_remove_drop
Vec_swap_remove_drop(self, elements) ==
    swap_remove_rev(self, elements.start, elements.end)

\* <Vec<T> as AlignedBytesVec>::swap_remove_to: the chunks of the range
\* are pushed on other in the order of the range (self[idx] aborts
\* outside of the vector), then removed from self in descending order
Vec_swap_remove_to(self, other, elements) ==
    IF elements.end > VecLen(self) /\ elements.start < elements.end
    THEN [self |-> self, other |-> other, panic |-> TRUE]
    ELSE [self |-> Vec_swap_remove_drop(self, elements).v,
          other |-> push_all(other, [c \in 1..(elements.end - elements.start) |->
                                        self[elements.start + c - 1]]),
          panic |-> FALSE]

\* RawDynamicTable { buf, layout }; new_dynamic_table starts with one
\* empty column
RawDynamicTable(buf, layout) == [buf |-> buf, layout |-> layout]

new_dynamic_table(layout) == RawDynamicTable(push(<<>>, <<>>), layout)

\* impl Columns for RawDynamicTable
Columns_push_empty_column(self) == [self EXCEPT !.buf = push(@, <<>>)]

Columns_swap_remove_to(self, old_col, new_col, entity_idx) ==
    LET r == Vec_swap_remove_to(self.buf[old_col], self.buf[new_col],
                                component_chunks(self.layout, entity_idx))
    IN  [self |-> [self EXCEPT !.buf[old_col] = r.self, !.buf[new_col] = r.other],
         panic |-> r.panic]

Columns_swap_remove_drop(self, col, entity_idx) ==
    LET r == Vec_swap_remove_drop(self.buf[col], component_chunks(self.layout, entity_idx))
    IN  [self |-> [self EXCEPT !.buf[col] = r.v], panic |-> r.panic]

\* DynamicTable::get_component_raw with the row and the column that the
\* World answers: the bytes entity_idx * size .. (entity_idx + 1) * size of
\* the column; the slice aborts behind the end of the column
get_component_raw(self, column_idx, entity_idx) ==
    LET bytes == Vec_as_byte_slice(self.buf[column_idx], 0)
    IN  IF (entity_idx + 1) * self.layout.size > Len(bytes)
        THEN [ret |-> <<>>, panic |-> TRUE]
        ELSE [ret |-> SubSeq(bytes, entity_idx * self.layout.size + 1,
                             (entity_idx + 1) * self.layout.size),
              panic |-> FALSE]

\* DynamicTable::insert_overwrite_raw: assert_eq!(overwrite.len(),
\* data.len()), then the bytes of data are written over the component
insert_overwrite_raw(self, column_idx, entity_idx, data) ==
    IF get_component_raw(self, column_idx, entity_idx).panic
        \/ Len(data) # self.layout.size
    THEN [self |-> self, panic |-> TRUE]
    ELSE [self |-> [self EXCEPT !.buf[column_idx] =
                       write_byte_slice(@, self.layout.align,
                                        entity_idx * self.layout.size, data)],
          panic |-> FALSE]

\* an insert_component_raw that asserts the length of data
insert_component_raw_asserts(self, column_idx, data) ==
    IF Len(data) # self.layout.size THEN [self |-> self, panic |-> TRUE]
    ELSE [self |-> [self EXCEPT !.buf[column_idx] =
                       Vec_push(@, self.layout.align, data)],
          panic |-> FALSE]

\* DynamicTable::insert_component_raw: inner.buf[column_idx].push(data)
insert_component_raw(self, column_idx, data) ==
    [self |-> [self EXCEPT !.buf[column_idx] = Vec_push(@, self.layout.align, data)],
     panic |-> FALSE]

\* DynamicTable::remove_component_raw
remove_component_raw(self, column_idx, entity_idx) ==
    Columns_swap_remove_drop(self, column_idx, entity_idx)

\* the entities of a table, the layouts of the tables and the lengths
\* of the byte slices that are handed to insert_component
MaxChunkRows == 3
ChunkEntities == 0..(MaxChunkRows - 1)
ChunkLayouts == {Layout(4, 2), Layout(2, 2), Layout(3, 1)}
DataLens(layout) == {layout.size, layout.size - layout.align, layout.size + 1}

\* the bytes that are inserted for an entity: tag names the call
DataFor(tag, len) == [p \in 1..len |-> tag * 10 + p]

\* a DynamicTable with the rows of the archetypes that own its columns:
\* rows[c] holds the entities of the archetype of column c
TableRows(table, rows) == [table |-> table, rows |-> rows]

\* the column and the row of an entity that has the component
ColumnOf(t, entity) ==
    CHOOSE c \in DOMAIN t.rows : \E i \in DOMAIN t.rows[c] : t.rows[c][i] = entity
HasChunks(t, entity) ==
    \E c \in DOMAIN t.rows : \E i \in DOMAIN t.rows[c] : t.rows[c][i] = entity
RowIn(t, entity) == Unwrap(position(t.rows[ColumnOf(t, entity)], entity))

\* the column holds the chunks of whole components, one for every row
WholeComponents(t, c) ==
    VecLen(t.table.buf[c]) = VecLen(t.rows[c]) * chunks_per_component(t.table.layout)

\* one call on the table with the outcome r of the table and the rows
\* that the World keeps; the caller keeps the table it called, the column,
\* the row and the length of the slice.  The calls are made on tables
\* whose columns hold whole components: no call follows one that left
\* another number of chunks behind
ChunkStep(op, r, rows, col, entity_idx, len) ==
    /\ ~panicked
    /\ erased_column # None
    /\ \A c \in DOMAIN Unwrap(erased_column).rows : WholeComponents(Unwrap(erased_column), c)
    /\ panicked' = r.panic
    /\ erased_column' = IF r.panic THEN erased_column
                        ELSE Some(TableRows(r.self, rows))
    /\ result' = Some([chunks |-> op, before |-> Unwrap(erased_column), col |-> col,
                       entity_idx |-> entity_idx, len |-> len, panic |-> r.panic])
    /\ UNCHANGED <<world, simple_world, query, borrow_flag, queries, function_system, heap>>

\* DynamicTable::new, and the column of a second archetype
NewDynamicTable(layout) ==
    /\ ~panicked
    /\ erased_column = None
    /\ erased_column' = Some(TableRows(new_dynamic_table(layout), push(<<>>, <<>>)))
    /\ result' = None
    /\ UNCHANGED <<world, simple_world, panicked, query, borrow_flag, queries,
                   function_system, heap>>

PushEmptyColumn ==
    /\ ~panicked
    /\ erased_column # None
    /\ VecLen(Unwrap(erased_column).rows) < 2
    /\ erased_column' = Some(TableRows(
           Columns_push_empty_column(Unwrap(erased_column).table),
           push(Unwrap(erased_column).rows, <<>>)))
    /\ result' = None
    /\ UNCHANGED <<world, simple_world, panicked, query, borrow_flag, queries,
                   function_system, heap>>

\* ColumnsApi::insert_component on an entity that lacks the component:
\* the entity joins the archetype of column 0 and insert_component_raw
\* pushes the bytes
ChunkInsertFresh(entity, len) ==
    /\ erased_column # None
    /\ ~HasChunks(Unwrap(erased_column), entity)
    /\ len \in DataLens(Unwrap(erased_column).table.layout)
    /\ ChunkStep("insert_fresh",
                 insert_component_raw(Unwrap(erased_column).table, 0,
                                      DataFor(entity + 1, len)),
                 [Unwrap(erased_column).rows EXCEPT ![0] = push(@, entity)],
                 0, VecLen(Unwrap(erased_column).rows[0]), len)

\* ColumnsApi::insert_component on an entity that has the component
ChunkInsertOver(entity, len) ==
    /\ erased_column # None
    /\ HasChunks(Unwrap(erased_column), entity)
    /\ len \in DataLens(Unwrap(erased_column).table.layout)
    /\ ChunkStep("insert_over",
                 insert_overwrite_raw(Unwrap(erased_column).table,
                                      ColumnOf(Unwrap(erased_column), entity),
                                      RowIn(Unwrap(erased_column), entity),
                                      DataFor(entity + 5, len)),
                 Unwrap(erased_column).rows,
                 ColumnOf(Unwrap(erased_column), entity),
                 RowIn(Unwrap(erased_column), entity), len)

\* ColumnsApi::remove_component: remove_component_raw, then the entity
\* leaves the archetype
ChunkRemove(entity) ==
    /\ erased_column # None
    /\ HasChunks(Unwrap(erased_column), entity)
    /\ ChunkStep("remove",
                 remove_component_raw(Unwrap(erased_column).table,
                                      ColumnOf(Unwrap(erased_column), entity),
                                      RowIn(Unwrap(erased_column), entity)),
                 [Unwrap(erased_column).rows EXCEPT
                     ![ColumnOf(Unwrap(erased_column), entity)] =
                         swap_remove(@, RowIn(Unwrap(erased_column), entity))],
                 ColumnOf(Unwrap(erased_column), entity),
                 RowIn(Unwrap(erased_column), entity), 0)

\* the entity moves to the other archetype: Columns::swap_remove_to
ChunkMigrate(entity) ==
    /\ erased_column # None
    /\ HasChunks(Unwrap(erased_column), entity)
    /\ VecLen(Unwrap(erased_column).rows) = 2
    /\ ChunkStep("migrate",
                 Columns_swap_remove_to(Unwrap(erased_column).table,
                                        ColumnOf(Unwrap(erased_column), entity),
                                        1 - ColumnOf(Unwrap(erased_column), entity),
                                        RowIn(Unwrap(erased_column), entity)),
                 [Unwrap(erased_column).rows EXCEPT
                     ![ColumnOf(Unwrap(erased_column), entity)] =
                         swap_remove(@, RowIn(Unwrap(erased_column), entity)),
                     ![1 - ColumnOf(Unwrap(erased_column), entity)] = push(@, entity)],
                 ColumnOf(Unwrap(erased_column), entity),
                 RowIn(Unwrap(erased_column), entity), 0)

NextChunks ==
    \/ \E layout \in ChunkLayouts : NewDynamicTable(layout)
    \/ PushEmptyColumn
    \/ \E entity \in ChunkEntities, len \in 0..5 : ChunkInsertFresh(entity, len)
    \/ \E entity \in ChunkEntities, len \in 0..5 : ChunkInsertOver(entity, len)
    \/ \E entity \in ChunkEntities : ChunkRemove(entity)
    \/ \E entity \in ChunkEntities : ChunkMigrate(entity)

SpecChunks == Init /\ [][NextChunks]_vars

\* C34: where a component spans k > 1 chunks, the removal or migration of
\* the component at row i, by swap_remove of its chunk indices in
\* descending order, is one swap-remove of components: the column has one
\* component fewer, the chunks of the former last component are at
\* i*k .. (i+1)*k in their order, every other component keeps its chunks,
\* and the destination of a migration receives the chunks of the removed
\* component in their order
ChunkwiseSwapRemove ==
    (/\ result # None
     /\ "chunks" \in DOMAIN Unwrap(result)
     /\ Unwrap(result).chunks \in {"remove", "migrate"}
     /\ chunks_per_component(Unwrap(result).before.table.layout) > 1
     /\ WholeComponents(Unwrap(result).before, Unwrap(result).col)) =>
        LET r == Unwrap(result)
            k == chunks_per_component(r.before.table.layout)
            i == r.entity_idx
            n == VecLen(r.before.rows[r.col])
            b == r.before.table.buf[r.col]
            a == Unwrap(erased_column).table.buf[r.col]
            bd == r.before.table.buf[1 - r.col]
            ad == Unwrap(erased_column).table.buf[1 - r.col]
        IN  /\ ~r.panic
            /\ VecLen(a) = (n - 1) * k
            /\ i < n - 1 => \A j \in 0..(k - 1) : a[i * k + j] = b[(n - 1) * k + j]
            /\ \A row \in 0..(n - 2) : row # i =>
                  \A j \in 0..(k - 1) : a[row * k + j] = b[row * k + j]
            /\ r.chunks = "migrate" =>
                  /\ VecLen(ad) = VecLen(bd) + k
                  /\ \A c \in DOMAIN bd : ad[c] = bd[c]
                  /\ \A j \in 0..(k - 1) : ad[VecLen(bd) + j] = b[i * k + j]

\* the first of three components of three chunks each migrated to a
\* column that held no component
ChunkwiseSwapRemoveWitness ==
    /\ result # None
    /\ "chunks" \in DOMAIN Unwrap(result)
    /\ Unwrap(result).chunks = "migrate"
    /\ chunks_per_component(Unwrap(result).before.table.layout) = 3
    /\ WholeComponents(Unwrap(result).before, Unwrap(result).col)
    /\ VecLen(Unwrap(result).before.rows[Unwrap(result).col]) = 3
    /\ Unwrap(result).entity_idx = 0
    /\ ~Unwrap(result).panic
    /\ VecLen(Unwrap(erased_column).table.buf[Unwrap(result).col]) = 6

\* C36: DynamicTable::insert_component accepts a byte slice only when
\* its length is layout.size(): a slice of another length is rejected on
\* the fresh-insert path as on the overwrite path, so that every column
\* holds (rows of its archetype) x (chunks per component) chunks
OnlySizedSlices ==
    /\ (/\ result # None
        /\ "chunks" \in DOMAIN Unwrap(result)
        /\ Unwrap(result).chunks \in {"insert_fresh", "insert_over"}
        /\ Unwrap(result).len # Unwrap(result).before.table.layout.size) =>
            Unwrap(result).panic
    /\ erased_column # None =>
          \A c \in DOMAIN Unwrap(erased_column).rows :
              WholeComponents(Unwrap(erased_column), c)

\* the overwrite path alone rejects every slice of another length
OverwriteOnlySizedSlices ==
    (/\ result # None
     /\ "chunks" \in DOMAIN Unwrap(result)
     /\ Unwrap(result).chunks = "insert_over"
     /\ Unwrap(result).len # Unwrap(result).before.table.layout.size) =>
        Unwrap(result).panic

\* ------------------------------------------------------------------ components of size 0
\* the dynamic types of size 0 and the live entities that lack them
ZeroSized(w) == {id \in DOMAIN w.sizes : w.sizes[id] = 0}
Lacks(w, entity, id) ==
    is_alive(w, entity) /\ has_component_dynamic(w, entity, id) = Some(FALSE)

\* the number of elements in the columns of a family
ElementCount(w, id) ==
    SumOver([c \in DOMAIN w.columns[id] |-> VecLen(w.columns[id][c])],
            DOMAIN w.columns[id])

\* C35: the insert of a dynamic component whose layout has size 0 into a
\* live entity that lacks it succeeds: insert_component_dynamic returns
\* None without an abort, the entity has the component, and the element
\* count of the columns has grown by one
ZeroSizedInsertSucceeds ==
    \A entity \in IssuedEntities, id \in ZeroSized(world) :
        Lacks(world, entity, id) =>
            LET r == insert_component_dynamic(world, entity, id, 10)
            IN  /\ ~r.panic
                /\ r.ret = None
                /\ has_component_dynamic(r.w, entity, id) = Some(TRUE)
                /\ ElementCount(r.w, id) = ElementCount(world, id) + 1

\* the same insert with a layout of another size
SizedInsertSucceeds ==
    \A entity \in IssuedEntities, id \in DOMAIN world.sizes \ ZeroSized(world) :
        Lacks(world, entity, id) =>
            LET r == insert_component_dynamic(world, entity, id, 10)
            IN  /\ ~r.panic
                /\ r.ret = None
                /\ has_component_dynamic(r.w, entity, id) = Some(TRUE)
                /\ ElementCount(r.w, id) = ElementCount(world, id) + 1

\* ------------------------------------------------------------------ AddRemover
\* Insert<T> and Remove: the recorded commands and the Swap markers
Insert_Data(entity, component) ==
    [kind |-> "Insert", entity |-> entity, component |-> component]
Insert_Swap == [kind |-> "Swap"]
Remove_Data(entity) == [kind |-> "Remove", entity |-> entity]
Remove_Swap == [kind |-> "Swap"]

AddRemover(inserts, removes) == [inserts |-> inserts, removes |-> removes]

\* Commands::make_add_remover
make_add_remover == AddRemover(<<>>, <<Remove_Swap>>)

\* Vec::last
last(v) == IF v = <<>> THEN None ELSE Some(v[Len(v)])

\* an insert that records no marker in the list of the removes
EntityBoundAddRemover_insert_no_marker(add_remover, entity, component) ==
    AddRemover(Append(add_remover.inserts, Insert_Data(entity, component)),
               add_remover.removes)

\* EntityBoundAddRemover::insert and EntityBoundAddRemover::remove
EntityBoundAddRemover_insert(add_remover, entity, component) ==
    AddRemover(Append(add_remover.inserts, Insert_Data(entity, component)),
               IF last(add_remover.inserts) = Some(Insert_Swap)
               THEN Append(add_remover.removes, Remove_Swap)
               ELSE add_remover.removes)

EntityBoundAddRemover_remove(add_remover, entity) ==
    AddRemover(IF last(add_remover.removes) = Some(Remove_Swap)
               THEN Append(add_remover.inserts, Insert_Swap)
               ELSE add_remover.inserts,
               Append(add_remover.removes, Remove_Data(entity)))

\* StaticColumns::insert_component and StaticColumns::remove_component of
\* the column family of u32: the abort of assert_alive, then the operation
storage_insert_component(w, entity, component) ==
    IF IsSome(assert_alive(w, entity)) THEN [w |-> w, ret |-> None, panic |-> TRUE]
    ELSE insert_component(w, entity, "u32", component)

storage_remove_component(w, entity) ==
    IF IsSome(assert_alive(w, entity)) THEN [w |-> w, ret |-> None, panic |-> TRUE]
    ELSE remove_component(w, entity, "u32")

\* the loop of AddRemover::flush: the iterators over the two lists, the
\* list that is read next, and the commands that were applied so far
RECURSIVE flush_loop(_, _, _, _, _)
flush_applied(r, cmd, inserts, removes, next_remove, applied) ==
    IF r.panic THEN [w |-> r.w, applied |-> applied, panic |-> TRUE]
    ELSE flush_loop(inserts, removes, next_remove, r.w, Append(applied, cmd))

flush_loop(inserts, removes, next_remove, w, applied) ==
    IF next_remove
    THEN IF removes = <<>> THEN [w |-> w, applied |-> applied, panic |-> FALSE]
         ELSE IF Head(removes) = Remove_Swap
         THEN flush_loop(inserts, Tail(removes), FALSE, w, applied)
         ELSE flush_applied(storage_remove_component(w, Head(removes).entity),
                            Head(removes), inserts, Tail(removes), TRUE, applied)
    ELSE IF inserts = <<>> THEN [w |-> w, applied |-> applied, panic |-> FALSE]
         ELSE IF Head(inserts) = Insert_Swap
         THEN flush_loop(Tail(inserts), removes, TRUE, w, applied)
         ELSE flush_applied(storage_insert_component(w, Head(inserts).entity,
                                                     Head(inserts).component),
                            Head(inserts), Tail(inserts), removes, FALSE, applied)

\* AddRemover::flush: the fix-up of the reserved entities, then the loop
AddRemover_flush(inserts, removes, w) ==
    flush_loop(inserts, removes, TRUE, fix_reserved_entities(w), <<>>)

\* the number of insert and remove calls of one scope
MaxAddRemoves == 4

\* a scope with its AddRemover and the calls in the order they were made
Scope(add_remover, calls) == [add_remover |-> add_remover, calls |-> calls]

ScopeStart ==
    /\ ~panicked
    /\ ~function_system.running
    /\ query = None
    /\ queries = <<>>
    /\ function_system' = FunctionSystem(Scope(make_add_remover, <<>>), TRUE)
    /\ result' = None
    /\ UNCHANGED <<world, simple_world, panicked, query, borrow_flag, queries,
                   erased_column, heap>>

ScopeStep(w, add_remover, call) ==
    /\ ~panicked
    /\ function_system.running
    /\ "calls" \in DOMAIN function_system.state
    /\ WithinBounds(w)
    /\ Len(function_system.state.calls) < MaxAddRemoves
    /\ world' = w
    /\ function_system' =
          FunctionSystem(Scope(add_remover, function_system.state.calls \o call), TRUE)
    /\ UNCHANGED <<simple_world, panicked, query, borrow_flag, queries, result,
                   erased_column, heap>>

\* cmds.entity(entity).insert(component) and cmds.entity(entity).remove()
ScopeInsert(entity, component) ==
    /\ function_system.running
    /\ ScopeStep(world,
                 EntityBoundAddRemover_insert(function_system.state.add_remover,
                                              entity, component),
                 <<Insert_Data(entity, component)>>)

ScopeRemove(entity) ==
    /\ function_system.running
    /\ ScopeStep(world,
                 EntityBoundAddRemover_remove(function_system.state.add_remover, entity),
                 <<Remove_Data(entity)>>)

\* AddRemover::spawn: reserve_entity through the shared reference
ScopeSpawn ==
    /\ function_system.running
    /\ ScopeStep(reserve_entity(world).w, function_system.state.add_remover, <<>>)

\* the end of the scope: flush with the outcome r; the caller keeps the
\* calls it made and the commands that were applied
ScopeFlushStep(r, calls, before) ==
    /\ ~panicked
    /\ function_system.running
    /\ WithinBounds(r.w)
    /\ panicked' = r.panic
    /\ world' = IF r.panic THEN world ELSE r.w
    /\ function_system' = FunctionSystem(CommandBuffer_new, FALSE)
    /\ result' = Some([flushed |-> r.applied, calls |-> calls, before |-> before,
                       panic |-> r.panic])
    /\ UNCHANGED <<simple_world, query, borrow_flag, queries, erased_column, heap>>

ScopeFlush ==
    /\ function_system.running
    /\ ScopeFlushStep(AddRemover_flush(function_system.state.add_remover.inserts,
                                       function_system.state.add_remover.removes, world),
                      function_system.state.calls, world)

NextAddRemover ==
    \/ Spawn
    \/ \E entity \in IssuedEntities : Despawn(entity)
    \/ ScopeStart
    \/ \E entity \in IssuedEntities : ScopeInsert(entity, 10)
    \/ \E entity \in IssuedEntities : ScopeRemove(entity)
    \/ ScopeSpawn
    \/ ScopeFlush

SpecAddRemover == Init /\ [][NextAddRemover]_vars

\* the calls applied one after the other to the World, up to the first
\* one that aborts
RECURSIVE calls_applied(_, _, _)
calls_next(r, calls, w, applied) ==
    IF r.panic THEN [w |-> w, applied |-> applied]
    ELSE calls_applied(Tail(calls), r.w, Append(applied, Head(calls)))

calls_applied(calls, w, applied) ==
    IF calls = <<>> THEN [w |-> w, applied |-> applied]
    ELSE calls_next(IF Head(calls).kind = "Insert"
                    THEN storage_insert_component(w, Head(calls).entity,
                                                  Head(calls).component)
                    ELSE storage_remove_component(w, Head(calls).entity),
                    calls, w, applied)

\* the flush r applied what expected applied, and every call unless it
\* aborted
FlushedAs(r, expected) ==
    /\ r.flushed = expected.applied
    /\ ~r.panic => /\ r.flushed = r.calls
                   /\ world = expected.w

\* C37: AddRemover::flush applies the recorded commands in the order in
\* which insert and remove were called, each of them once, for every
\* interleaving of the calls, one that starts with a remove included; no
\* command is left unapplied when the loop ends
FlushInCallOrder ==
    (result # None /\ "flushed" \in DOMAIN Unwrap(result)) =>
        FlushedAs(Unwrap(result),
                  calls_applied(Unwrap(result).calls,
                                fix_reserved_entities(Unwrap(result).before), <<>>))

\* a scope that starts with a remove and then alternates was flushed
FlushInCallOrderWitness ==
    /\ result # None
    /\ "flushed" \in DOMAIN Unwrap(result)
    /\ ~Unwrap(result).panic
    /\ Len(Unwrap(result).flushed) = 4
    /\ Unwrap(result).flushed[1].kind = "Remove"
    /\ Unwrap(result).flushed[2].kind = "Insert"
    /\ Unwrap(result).flushed[3].kind = "Remove"
    /\ Unwrap(result).flushed[4].kind = "Insert"
    /\ Unwrap(result).flushed[1].entity # Unwrap(result).flushed[2].entity

\* ------------------------------------------------------------------ the fix-up of reserved entities
\* the number of entities of the runs of Entities::fix_reserved_entities
MaxReserved == 3

\* the entities that the operations with an entity argument are called with
FixUpEntities == 0..1

\* one call on the Entities of the World: op names the call, r is its
\* outcome, issued are the ids that reserve_entity returned so far and cap
\* is the bound of the counter in this run
EntitiesStep(op, r, issued, cap) ==
    /\ r.w.entities.len <= cap
    /\ VecLen(r.w.entities.meta) <= cap
    /\ world' = r.w
    /\ panicked' = (panicked \/ r.panic)
    /\ result' = Some([op |-> op, before |-> world, ret |-> r.ret,
                       panic |-> r.panic, earlier |-> issued,
                       issued |-> IF op = "reserve_entity" /\ ~r.panic
                                  THEN issued \cup {r.ret} ELSE issued])
    /\ UNCHANGED <<simple_world, query, borrow_flag, queries, function_system,
                   erased_column, heap>>

\* the ids that reserve_entity returned so far in this run
Issued == IF result = None THEN {} ELSE Unwrap(result).issued

\* Entities::reserve_entity through a shared reference
EntitiesReserve(cap) ==
    EntitiesStep("reserve_entity", reserve_entity(world), Issued, cap)

\* Entities::fix_reserved_entities with the callback of World::spawn
EntitiesFixReserved(cap) ==
    EntitiesStep("fix_reserved_entities",
                 [w |-> fix_reserved_entities(world), ret |-> None, panic |-> FALSE],
                 Issued, cap)

EntitiesDespawnStep(r, cap) ==
    EntitiesStep("despawn", [w |-> r.w, ret |-> None, panic |-> r.panic], Issued, cap)

EntitiesDespawn(entity, cap) ==
    EntitiesDespawnStep(World_despawn(world, entity), cap)

EntitiesInsertStep(r, cap) ==
    EntitiesStep("insert_component", [w |-> r.w, ret |-> None, panic |-> r.panic],
                 Issued, cap)

EntitiesInsert(entity, cap) ==
    EntitiesInsertStep(insert_component(world, entity, "u32", 10), cap)

NextFixUp ==
    \/ EntitiesReserve(MaxReserved)
    \/ EntitiesFixReserved(MaxReserved)
    \/ \E entity \in FixUpEntities : EntitiesDespawn(entity, MaxReserved)
    \/ \E entity \in FixUpEntities : EntitiesInsert(entity, MaxReserved)

SpecFixUp == Init /\ [][NextFixUp]_vars

\* the entity list after is the entity list before followed by the ids
\* from .. to - 1 in increasing order
PushedInOrder(before, after, from, to) ==
    /\ VecLen(after) = VecLen(before) + (to - from)
    /\ \A i \in DOMAIN before : after[i] = before[i]
    /\ \A id \in from..(to - 1) : after[VecLen(before) + (id - from)] = Entity(id)

\* the fix-up that led from before to after called the callback once for
\* each reserved entity, in increasing order, and wrote their metadata only
FixedUp(before, after) ==
    /\ PushedInOrder(before.archetypes[0].entities, after.archetypes[0].entities,
                     VecLen(before.entities.meta), before.entities.len)
    /\ VecLen(after.entities.meta) = before.entities.len
    /\ \A id \in Reserved(before) : after.entities.meta[id] = Some(EntityMeta(0))
    /\ \A id \in DOMAIN before.entities.meta :
          after.entities.meta[id] = before.entities.meta[id]
    /\ after.entities.len = before.entities.len
    /\ after.columns = before.columns
    /\ \A a \in DOMAIN before.archetypes :
          a # 0 => after.archetypes[a] = before.archetypes[a]
    /\ DOMAIN after.archetypes = DOMAIN before.archetypes
    /\ after.archetypes[0].column_indices = before.archetypes[0].column_indices
    /\ fix_reserved_entities(after) = after

\* C38: fix_reserved_entities calls its callback exactly once for each
\* entity reserved since the previous fix-up, in increasing id order, gives
\* each of them the metadata of archetype 0 and leaves the metadata of
\* every older entity, alive or dead, as it was; a second call with no
\* reserve in between calls the callback for no entity
FixUpOncePerReserved ==
    (result # None /\ Unwrap(result).op = "fix_reserved_entities") =>
        FixedUp(Unwrap(result).before, world)

\* a fix-up of two reserved entities in a World whose older entity is dead
FixUpOncePerReservedWitness ==
    /\ result # None
    /\ Unwrap(result).op = "fix_reserved_entities"
    /\ Reserved(Unwrap(result).before) = {1, 2}
    /\ ~is_alive(Unwrap(result).before, 0)
    /\ ~is_alive(world, 0)
    /\ is_alive(world, 1) /\ is_alive(world, 2)

\* ------------------------------------------------------------------ the counter of Entities
\* reserve_entity with the counter up to usize::MAX: a panic of one caller
\* unwinds that caller and the Entities stay with the other holders of the
\* shared reference, who go on calling reserve_entity; the calls that take
\* the World exclusively are made before the panic only
NextCounter ==
    \/ EntitiesReserve(usize_MAX)
    \/ ~panicked /\ EntitiesFixReserved(usize_MAX)
    \/ \E entity \in FixUpEntities : ~panicked /\ EntitiesDespawn(entity, usize_MAX)
    \/ \E entity \in FixUpEntities : ~panicked /\ EntitiesInsert(entity, usize_MAX)

SpecCounter == Init /\ [][NextCounter]_vars

\* the call r of reserve_entity that led to the World after returned an id
\* that no call returned before and changed the counter only; it aborted
\* if the counter was usize::MAX
ReservedFresh(r, after) ==
    /\ ~r.panic => r.ret \notin r.earlier
    /\ after.entities.meta = r.before.entities.meta
    /\ after.archetypes = r.before.archetypes
    /\ after.columns = r.before.columns
    /\ r.before.entities.len = usize_MAX => r.panic

\* C39: every reserve_entity call returns an id different from every id
\* returned before and changes neither entity metadata nor any archetype;
\* at the maximum value of the counter the call aborts, and no call made
\* afterwards returns an id that was issued already
ReserveNeverReissues ==
    (result # None /\ Unwrap(result).op = "reserve_entity") =>
        ReservedFresh(Unwrap(result), world)

\* the same for the calls made before a call aborted
ReserveFreshBeforeAbort ==
    (result # None /\ Unwrap(result).op = "reserve_entity" /\ ~panicked) =>
        ReservedFresh(Unwrap(result), world)

\* the call at the maximum value aborts
ReserveAbortsAtMax ==
    (result # None /\ Unwrap(result).op = "reserve_entity"
        /\ Unwrap(result).before.entities.len = usize_MAX) => Unwrap(result).panic

\* ------------------------------------------------------------------ the end of an iteration
\* a call of next after next has returned None; again is what it returns
NextAgain(kind, r) ==
    /\ query # None
    /\ Unwrap(query).kind = kind
    /\ Unwrap(query).done
    /\ Yield(r)
    /\ result' = Some([again |-> r.item])
    /\ UNCHANGED <<world, simple_world, panicked, borrow_flag, queries,
                   function_system, erased_column, heap>>

QueryNextAgain ==
    /\ query # None
    /\ NextAgain("QueryIter", QueryIter_next(world, Unwrap(query).iter))

JoinNextAgain ==
    /\ query # None
    /\ NextAgain("ColumnIterator", ColumnIterator_next(world, Unwrap(query).iter))

\* the iterator and the locks are dropped at the end of the loop
LoopDrop ==
    /\ query # None
    /\ Unwrap(query).done
    /\ QueryDrop

NextLoop ==
    \/ Spawn
    \/ \E entity \in IssuedEntities : Despawn(entity)
    \/ \E entity \in IssuedEntities, type_id \in StaticTypes :
          Insert(entity, type_id, 10)
    \/ \E entity \in IssuedEntities, type_id \in StaticTypes : Remove(entity, type_id)
    \/ \E Q \in QueryShapes : QueryStart(Q)
    \/ QueryNext
    \/ QueryNextAgain
    \/ \E Q \in JoinShapes : JoinStart(Q)
    \/ JoinNext
    \/ JoinNextAgain
    \/ LoopDrop

\* a loop over an iterator calls next until next returns None
SpecLoop ==
    /\ Init
    /\ [][NextLoop]_vars
    /\ WF_vars(QueryNext)
    /\ WF_vars(JoinNext)

\* the number of entities in the entity lists of the archetypes
EntityCount(w) ==
    SumOver([a \in DOMAIN w.archetypes |-> VecLen(w.archetypes[a].entities)],
            DOMAIN w.archetypes)

\* C40: iterating a query always terminates: after finitely many calls
\* that each yield one row, no more rows than there are entities, next
\* returns None, also when matching archetypes have no entities or the
\* query holds no locks; and every call after that returns None as well
IterationTerminates ==
    /\ [](query # None => Len(Unwrap(query).yielded) <= EntityCount(world))
    /\ []((result # None /\ "again" \in DOMAIN Unwrap(result)) =>
              Unwrap(result).again = None)
    /\ (query # None) ~> (query # None /\ Unwrap(query).done)

\* next was called again after the None that ended a QueryIter over
\* matching archetypes of which one has no entities and one has a row
IterationTerminatesWitness ==
    /\ query # None
    /\ Unwrap(query).kind = "QueryIter"
    /\ Unwrap(query).done
    /\ Len(Unwrap(query).yielded) = 1
    /\ result # None
    /\ "again" \in DOMAIN Unwrap(result)
    /\ \E a \in DOMAIN world.archetypes :
          /\ tuple_archetype_matches(world, Unwrap(query).Q, world.archetypes[a])
          /\ VecLen(world.archetypes[a].entities) = 0
          /\ \E k \in DOMAIN Unwrap(query).Q : Unwrap(query).Q[k].kind = "Ref"

\* next was called again on a QueryIter whose Query holds no locks
IterationWithoutLocks ==
    /\ query # None
    /\ Unwrap(query).kind = "QueryIter"
    /\ Unwrap(query).locks = None
    /\ result # None
    /\ "again" \in DOMAIN Unwrap(result)

====
